---------------------------- MODULE Spec2Model ----------------------------
(***************************************************************************)
(* The TTS sentence cache of the JOI voice worker                          *)
(* (src/infra/livekit-worker/agent.py): LocalAudioCache, RedisAudioCache,  *)
(* RemoteChainAudioCache, TwoLayerAudioCache and the cached synthesis      *)
(* adapter's per-turn loop.                                                *)
(*                                                                         *)
(* Conventions.  A bytes value is a sequence of byte values.  Python's     *)
(* None is the value None below, which is no bytes value.  An OrderedDict  *)
(* is a sequence of [key, pcm] records, first inserted first.  Each await  *)
(* of the code is a step boundary; code between two awaits is one step.    *)
(***************************************************************************)
EXTENDS Integers, Sequences, FiniteSets, TLC

VARIABLES
    local,      \* the LocalAudioCache object: its four fields
    used,       \* ghost: keys of the local tier, least recently read or written first
    wrote,      \* ghost: per key, the payload of its last admitted set, None once evicted
    hist,       \* ghost: the run of Spec so far, while it is sets of distinct keys of one size
    remotes,    \* RemoteChainAudioCache._remotes: the backends, highest priority first
    call,       \* ghost: the last call made on the cache under test and what it returned
    turn,       \* _synthesize of the running turn: where it is, and its locals
    turn_metrics, \* the VoiceCacheTurnMetrics of the running turn
    emitter,    \* output_emitter: the PCM pushed in this turn (ghost: whether from the cache)
    transcript, \* output_emitter: the timed transcript markers pushed in this turn
    tts_calls,  \* ghost: the syntheses asked of the wrapped TTS in this turn, and how each ended
    stored,     \* ghost: per key, what the adapter last stored, None once evicted locally
    llm,        \* llm_node of the running reply (ghost: the message ids it has recorded)
    pending_turns, \* the session's deque of pending turn descriptors
    reported    \* ghost: the metrics callback of this turn, and the descriptors consumed so far

localVars == <<local, used, wrote, hist>>
turnVars == <<turn, turn_metrics, emitter, transcript, tts_calls, stored>>
sessionVars == <<llm, pending_turns, reported>>
vars == <<local, used, wrote, hist, remotes, call,
          turn, turn_metrics, emitter, transcript, tts_calls, stored,
          llm, pending_turns, reported>>

\* ----------------------------------------------------------------- bounds

\* LocalAudioCache(max_items, max_bytes) is constructed with max_items in
\* 0..MaxItemsCfg (_cfg_int(..., minimum=0)) and max_bytes in 1..MaxBytesCfg
\* (the configured minimum is positive); sizes are scaled down.
MaxItemsCfg == 2
MaxBytesCfg == 3

\* TTS_CACHE_MAX_AUDIO_BYTES, scaled down like the payloads: the cap on a
\* payload stored in or read from a remote backend, and on what the adapter
\* stores.
TTS_CACHE_MAX_AUDIO_BYTES == 2

\* The cache keys and payloads the calls are drawn from.
Keys == {"A", "B", "C"}
Payloads == {<<>>, <<7>>, <<9>>, <<7, 7>>, <<1, 2, 3>>}

None == <<-1>>

\* The wrapped TTS's sample_rate and num_channels, scaled down with the
\* payloads: one second of s16le audio is 2 * rate * channels bytes.
WrappedSampleRate == 1
WrappedNumChannels == 1

\* TTS_CACHE_MAX_TEXT_CHARS, scaled down with the texts.
TTS_CACHE_MAX_TEXT_CHARS == 4

\* A turn of the model has at most MaxSegments sentence events and a
\* synthesis at most MaxFrames audio frames.
MaxSegments == 2
MaxFrames == 3

\* A session of the model appends at most MaxDone pending turn descriptors,
\* and its turns have at most SessionSegments sentence events.
MaxDone == 3
SessionSegments == 1

\* VOICE_CHAT_MAX_ATTEMPTS, and the most stream deltas the gateway sends in
\* one response of the model.
VOICE_CHAT_MAX_ATTEMPTS == 3
MaxChunks == 2

\* The texts given to the key builder have at most MaxTextLen characters.
MaxTextLen == 3

\* A turn's input channel carries at most MaxPushed texts.
MaxPushed == 3

\* MaxTasks tasks share the local cache, each making at most MaxCalls calls.
MaxTasks == 2
MaxCalls == 2

\* ------------------------------------------------- texts and cache keys

\* A text is a sequence of one-character strings.
IsSpace(ch) == ch \in {" ", "\t", "\n"}

RECURSIVE LStrip(_)
LStrip(cs) == IF cs # <<>> /\ IsSpace(Head(cs)) THEN LStrip(Tail(cs)) ELSE cs

RECURSIVE RStrip(_)
RStrip(cs) ==
    IF cs # <<>> /\ IsSpace(cs[Len(cs)]) THEN RStrip(SubSeq(cs, 1, Len(cs) - 1)) ELSE cs

\* str.strip().
Strip(cs) == RStrip(LStrip(cs))

\* re.sub(r"\s+", " ", text).
RECURSIVE CollapseSpaces(_)
CollapseSpaces(cs) ==
    IF cs = <<>> THEN <<>>
    ELSE IF IsSpace(Head(cs)) THEN <<" ">> \o CollapseSpaces(LStrip(cs))
    ELSE <<Head(cs)>> \o CollapseSpaces(Tail(cs))

\* _normalize_cache_text.
NormalizeCacheText(cs) == Strip(CollapseSpaces(cs))

RECURSIVE Join(_)
Join(cs) == IF cs = <<>> THEN "" ELSE Head(cs) \o Join(Tail(cs))

TTS_CACHE_PREFIX == "joi:tts:v1"

\* The cache_fingerprint of the session's adapter.
Fingerprint ==
    [provider |-> "cartesia", model |-> "sonic-2", voice |-> "",
     sample_rate |-> WrappedSampleRate, num_channels |-> WrappedNumChannels]

\* json.dumps(payload, sort_keys=True, ensure_ascii=True), for ASCII texts.
CanonicalJson(text, fp) ==
    "{\"fp\": {\"model\": \"" \o fp.model
    \o "\", \"num_channels\": " \o ToString(fp.num_channels)
    \o ", \"provider\": \"" \o fp.provider
    \o "\", \"sample_rate\": " \o ToString(fp.sample_rate)
    \o ", \"voice\": \"" \o fp.voice
    \o "\"}, \"text\": \"" \o Join(text) \o "\"}"

\* hashlib.sha256(...).hexdigest(): taken as free of collisions.
Sha256Hex(str) == "sha256(" \o str \o ")"

\* _build_tts_cache_key.
BuildTtsCacheKeyRaw(text, fp) ==
    TTS_CACHE_PREFIX \o ":" \o Sha256Hex(CanonicalJson(text, fp))
BuildTtsCacheKey(text, fp) ==
    TTS_CACHE_PREFIX \o ":" \o Sha256Hex(CanonicalJson(NormalizeCacheText(text), fp))

\* CachedStreamAdapter._is_cacheable and _cache_key.
IsCacheable(text) ==
    LET normalized == NormalizeCacheText(text)
    IN  normalized # <<>> /\ Len(normalized) <= TTS_CACHE_MAX_TEXT_CHARS
CacheKey(text) == BuildTtsCacheKey(text, Fingerprint)

\* The tokens the sentence tokenizer may emit: " hi", "ok", " ", "longer".
Tokens == {<<" ", "h", "i">>, <<"o", "k">>, <<" ">>,
           <<"l", "o", "n", "g", "e", "r">>}

\* Durations are exact fractions <<numerator, denominator>> of a second, in
\* lowest terms.
RECURSIVE Gcd(_, _)
Gcd(a, b) == IF b = 0 THEN a ELSE Gcd(b, a % b)
Rat(n, d) == LET g == Gcd(n, d) IN <<n \div g, d \div g>>
RatAdd(x, y) == Rat(x[1] * y[2] + y[1] * x[2], x[2] * y[2])

\* CachedStreamAdapter._pcm_duration, of a payload of n bytes.
PcmDurationNoSampleWidth(n, sample_rate, num_channels) ==
    LET denom == sample_rate * num_channels
    IN  IF denom <= 0 THEN <<0, 1>> ELSE Rat(n, denom)
PcmDuration(n, sample_rate, num_channels) ==
    LET bytes_per_sample == 2
        denom == sample_rate * num_channels * bytes_per_sample
    IN  IF denom <= 0 THEN <<0, 1>> ELSE Rat(n, denom)

\* ------------------------------------------------------- LocalAudioCache

NewLocalAudioCache(max_items, max_bytes) ==
    [max_items |-> max_items, max_bytes |-> max_bytes,
     current_bytes |-> 0, items |-> <<>>]

\* OrderedDict.get(key): the value, or None.
DictGet(items, key) ==
    IF \E i \in 1..Len(items) : items[i].key = key
    THEN items[CHOOSE i \in 1..Len(items) : items[i].key = key].pcm
    ELSE None

DictKeys(items) == {items[i].key : i \in 1..Len(items)}

\* OrderedDict.__setitem__: an existing key keeps its place, a new one goes last.
DictSetItem(items, key, pcm) ==
    IF key \in DictKeys(items)
    THEN [i \in 1..Len(items) |->
            IF items[i].key = key THEN [key |-> key, pcm |-> pcm] ELSE items[i]]
    ELSE Append(items, [key |-> key, pcm |-> pcm])

\* OrderedDict.move_to_end(key).
MoveToEndKeepsPlace(items, key) == items
MoveToEnd(items, key) ==
    LET e == [key |-> key, pcm |-> DictGet(items, key)]
    IN  Append(SelectSeq(items, LAMBDA x : x.key # key), e)

\* The while loop of set: popitem(last=False) until both bounds hold.
RECURSIVE EvictLoop(_)
EvictLoopItemsOnly(c) ==
    IF Len(c.items) > c.max_items
    THEN EvictLoop([c EXCEPT !.items = Tail(c.items),
                             !.current_bytes = c.current_bytes - Len(Head(c.items).pcm)])
    ELSE c
EvictLoopNewestFirst(c) ==
    IF Len(c.items) > c.max_items \/ c.current_bytes > c.max_bytes
    THEN EvictLoop([c EXCEPT !.items = SubSeq(c.items, 1, Len(c.items) - 1),
                             !.current_bytes = c.current_bytes
                                               - Len(c.items[Len(c.items)].pcm)])
    ELSE c
EvictLoop(c) ==
    IF Len(c.items) > c.max_items \/ c.current_bytes > c.max_bytes
    THEN EvictLoop([c EXCEPT !.items = Tail(c.items),
                             !.current_bytes = c.current_bytes - Len(Head(c.items).pcm)])
    ELSE c

\* LocalAudioCache.get: [cache, ret].
LocalAudioCache_get(c, key) ==
    IF c.max_items <= 0 THEN [cache |-> c, ret |-> None]
    ELSE LET pcm == DictGet(c.items, key)
         IN  IF pcm = None THEN [cache |-> c, ret |-> None]
             ELSE [cache |-> [c EXCEPT !.items = MoveToEnd(c.items, key)],
                   ret |-> pcm]

\* LocalAudioCache.set: the cache after the call.
LocalAudioCache_set_NoSizeCheck(c, key, pcm) ==
    IF c.max_items <= 0 THEN c
    ELSE LET old == DictGet(c.items, key)
             less == IF old # None THEN c.current_bytes - Len(old) ELSE c.current_bytes
             put == DictSetItem(c.items, key, pcm)
         IN  EvictLoop([c EXCEPT !.items = MoveToEnd(put, key),
                                 !.current_bytes = less + Len(pcm)])
LocalAudioCache_set_NoDelta(c, key, pcm) ==
    IF c.max_items <= 0 THEN c
    ELSE IF Len(pcm) > c.max_bytes THEN c
    ELSE LET put == DictSetItem(c.items, key, pcm)
         IN  EvictLoop([c EXCEPT !.items = MoveToEnd(put, key),
                                 !.current_bytes = c.current_bytes + Len(pcm)])
LocalAudioCache_set(c, key, pcm) ==
    IF c.max_items <= 0 THEN c
    ELSE IF Len(pcm) > c.max_bytes THEN c
    ELSE LET old == DictGet(c.items, key)
             less == IF old # None THEN c.current_bytes - Len(old) ELSE c.current_bytes
             put == DictSetItem(c.items, key, pcm)
         IN  EvictLoop([c EXCEPT !.items = MoveToEnd(put, key),
                                 !.current_bytes = less + Len(pcm)])

\* ------------------------------------------------------- RedisAudioCache

\* Every key of the model.
StoreKeys == Keys \cup {CacheKey(t) : t \in Tokens}

\* A backend object and, in store, what its server holds per key.  url is
\* whether redis_url is non-empty; the redis package is taken as installed.
\* built counts the calls of AsyncRedis.from_url.
NewRedisAudioCache(name, url, max_audio_bytes) ==
    [name |-> name, max_audio_bytes |-> max_audio_bytes,
     client |-> FALSE, available |-> url, built |-> 0,
     store |-> [k \in StoreKeys |-> None]]

\* RedisAudioCache.enabled.
Enabled(r) == r.available

\* What the environment does to one backend call: "ok"; "ctor_fail", the
\* client construction raises (when there is no client yet); "fault", the
\* command raises before the server applied it; "lost_reply", the command
\* raises (a read timeout) after the server applied it.
GetOutcomes == {"ok", "ctor_fail", "fault"}
SetOutcomes == {"ok", "ctor_fail", "fault", "lost_reply"}

\* The outcomes that differ for a call on r: the construction can fail only
\* when it is attempted, and nothing is sent by a backend that is not enabled.
OutcomesFor(r, outs) ==
    IF ~r.available THEN {"ok"}
    ELSE IF r.client THEN outs \ {"ctor_fail"}
    ELSE outs
OutcomeSeqs(rs, outs) ==
    {f \in [1..Len(rs) -> outs] : \A j \in 1..Len(rs) : f[j] \in OutcomesFor(rs[j], outs)}

\* RedisAudioCache._ensure_client: [r, ok].
EnsureClientRecovers(r, out) ==
    IF ~r.client
    THEN IF out = "ctor_fail"
         THEN [r |-> [r EXCEPT !.available = FALSE, !.built = @ + 1], ok |-> FALSE]
         ELSE [r |-> [r EXCEPT !.client = TRUE, !.available = TRUE,
                               !.built = @ + 1], ok |-> TRUE]
    ELSE [r |-> r, ok |-> TRUE]
EnsureClient(r, out) ==
    IF ~Enabled(r) THEN [r |-> r, ok |-> FALSE]
    ELSE IF ~r.client
         THEN IF out = "ctor_fail"
              THEN [r |-> [r EXCEPT !.available = FALSE, !.built = @ + 1],
                    ok |-> FALSE]
              ELSE [r |-> [r EXCEPT !.client = TRUE, !.built = @ + 1], ok |-> TRUE]
         ELSE [r |-> r, ok |-> TRUE]

\* The path of a call on r that gets no client: the backend was not enabled
\* when called, or the construction of its client has just failed.
NoClient(r) == IF Enabled(r) THEN "ctor_failed" ELSE "unavailable"

\* RedisAudioCache.get: [r, ret, eff], eff naming the path taken; "raised"
\* would be an exception that leaves the call.
RedisAudioCache_get_NoExcept(r, key, out) ==
    LET e == EnsureClient(r, out)
    IN  IF ~e.ok THEN [r |-> e.r, ret |-> None, eff |-> NoClient(r)]
        ELSE IF out = "fault" THEN [r |-> e.r, ret |-> None, eff |-> "raised"]
        ELSE IF e.r.store[key] = None THEN [r |-> e.r, ret |-> None, eff |-> "miss"]
        ELSE IF Len(e.r.store[key]) > e.r.max_audio_bytes
             THEN [r |-> e.r, ret |-> None, eff |-> "oversize"]
        ELSE [r |-> e.r, ret |-> e.r.store[key], eff |-> "hit"]
RedisAudioCache_get(r, key, out) ==
    LET e == EnsureClient(r, out)
    IN  IF ~e.ok THEN [r |-> e.r, ret |-> None, eff |-> NoClient(r)]
        ELSE IF out = "fault" THEN [r |-> e.r, ret |-> None, eff |-> "fault"]
        ELSE IF e.r.store[key] = None THEN [r |-> e.r, ret |-> None, eff |-> "miss"]
        ELSE IF Len(e.r.store[key]) > e.r.max_audio_bytes
             THEN [r |-> e.r, ret |-> None, eff |-> "oversize"]
        ELSE [r |-> e.r, ret |-> e.r.store[key], eff |-> "hit"]

\* RedisAudioCache.set: [r, eff].
RedisAudioCache_set_ClientFirst(r, key, pcm, out) ==
    LET e == EnsureClient(r, out)
    IN  IF ~e.ok THEN [r |-> e.r, eff |-> NoClient(r)]
        ELSE IF Len(pcm) > r.max_audio_bytes THEN [r |-> e.r, eff |-> "oversize"]
        ELSE IF out = "fault" THEN [r |-> e.r, eff |-> "fault"]
        ELSE [r |-> [e.r EXCEPT !.store[key] = pcm],
              eff |-> IF out = "lost_reply" THEN "lost_reply" ELSE "stored"]
RedisAudioCache_set(r, key, pcm, out) ==
    IF Len(pcm) > r.max_audio_bytes THEN [r |-> r, eff |-> "oversize"]
    ELSE LET e == EnsureClient(r, out)
         IN  IF ~e.ok THEN [r |-> e.r, eff |-> NoClient(r)]
             ELSE IF out = "fault" THEN [r |-> e.r, eff |-> "fault"]
             ELSE [r |-> [e.r EXCEPT !.store[key] = pcm],
                   eff |-> IF out = "lost_reply" THEN "lost_reply" ELSE "stored"]

\* ------------------------------------------------- RemoteChainAudioCache

\* RemoteChainAudioCache.__init__: the enabled backends, in order.
NewRemoteChainUnfiltered(rs) == rs
NewRemoteChain(rs) == SelectSeq(rs, Enabled)

\* for remote in rs[:upto]: await remote.set(key, pcm), from backend j on.
\* [remotes, trace].
RECURSIVE SetEach(_, _, _, _, _, _, _)
SetEach(rs, upto, j, key, pcm, souts, trace) ==
    IF j > upto THEN [remotes |-> rs, trace |-> trace]
    ELSE LET w == RedisAudioCache_set(rs[j], key, pcm, souts[j])
         IN  SetEach([rs EXCEPT ![j] = w.r], upto, j + 1, key, pcm, souts,
                     Append(trace, [b |-> j, op |-> "set", eff |-> w.eff]))

\* The backfill loop of get, after a hit at backend idx: self._remotes[:idx].
BackfillOffByOne(rs, idx, key, pcm, souts, trace) ==
    SetEach(rs, idx - 2, 1, key, pcm, souts, trace)
Backfill(rs, idx, key, pcm, souts, trace) ==
    SetEach(rs, idx - 1, 1, key, pcm, souts, trace)

\* RemoteChainAudioCache.get, from backend idx on: [remotes, ret, src, trace].
\* gouts and souts give the environment's outcome of each backend's get and set.
RECURSIVE RemoteChain_getFrom(_, _, _, _, _, _)
RemoteChain_getFrom(rs, key, idx, gouts, souts, trace) ==
    IF idx > Len(rs)
    THEN [remotes |-> rs, ret |-> None, src |-> "", trace |-> trace]
    ELSE LET g == RedisAudioCache_get(rs[idx], key, gouts[idx])
             rs1 == [rs EXCEPT ![idx] = g.r]
             t1 == Append(trace, [b |-> idx, op |-> "get", eff |-> g.eff])
         IN  IF g.ret = None
             THEN RemoteChain_getFrom(rs1, key, idx + 1, gouts, souts, t1)
             ELSE LET bf == Backfill(rs1, idx, key, g.ret, souts, t1)
                  IN  [remotes |-> bf.remotes, ret |-> g.ret,
                       src |-> rs[idx].name, trace |-> bf.trace]

RemoteChain_get_WritesAll(rs, key, gouts, souts) ==
    LET h == RemoteChain_getFrom(rs, key, 1, gouts, souts, <<>>)
        w == SetEach(h.remotes, Len(rs), 1, key, h.ret, souts, h.trace)
    IN  IF h.ret = None THEN h
        ELSE [h EXCEPT !.remotes = w.remotes, !.trace = w.trace]
RemoteChain_get(rs, key, gouts, souts) ==
    RemoteChain_getFrom(rs, key, 1, gouts, souts, <<>>)

\* RemoteChainAudioCache.set: [remotes, trace].
RemoteChain_set_StopsAtFault(rs, key, pcm, souts) ==
    LET one == SetEach(rs, IF Len(rs) > 0 THEN 1 ELSE 0, 1, key, pcm, souts, <<>>)
    IN  IF one.trace # <<>>
           /\ one.trace[1].eff \in {"fault", "lost_reply", "ctor_failed"}
        THEN one
        ELSE SetEach(rs, Len(rs), 1, key, pcm, souts, <<>>)
RemoteChain_set(rs, key, pcm, souts) ==
    SetEach(rs, Len(rs), 1, key, pcm, souts, <<>>)

\* RemoteChainAudioCache.enabled.
ChainEnabled(rs) == Len(rs) > 0

\* ---------------------------------------------------- TwoLayerAudioCache

\* TwoLayerAudioCache.get: [local, remotes, ret, src, trace].
TwoLayer_get_NoLocalFill(c, rs, key, gouts, souts) ==
    LET l == LocalAudioCache_get(c, key)
    IN  IF l.ret # None
        THEN [local |-> l.cache, remotes |-> rs, ret |-> l.ret,
              src |-> "local", trace |-> <<>>]
        ELSE IF ChainEnabled(rs)
        THEN LET h == RemoteChain_get(rs, key, gouts, souts)
             IN  [local |-> c, remotes |-> h.remotes, ret |-> h.ret,
                  src |-> h.src, trace |-> h.trace]
        ELSE [local |-> c, remotes |-> rs, ret |-> None, src |-> "",
              trace |-> <<>>]
TwoLayer_get_RemoteFirst(c, rs, key, gouts, souts) ==
    LET h == RemoteChain_get(rs, key, gouts, souts)
        l == LocalAudioCache_get(c, key)
    IN  IF ChainEnabled(rs) /\ h.ret # None
        THEN [local |-> LocalAudioCache_set(c, key, h.ret), remotes |-> h.remotes,
              ret |-> h.ret, src |-> h.src, trace |-> h.trace]
        ELSE [local |-> l.cache, remotes |-> h.remotes, ret |-> l.ret,
              src |-> IF l.ret # None THEN "local" ELSE "", trace |-> h.trace]
TwoLayer_get(c, rs, key, gouts, souts) ==
    LET l == LocalAudioCache_get(c, key)
    IN  IF l.ret # None
        THEN [local |-> l.cache, remotes |-> rs, ret |-> l.ret,
              src |-> "local", trace |-> <<>>]
        ELSE IF ChainEnabled(rs)
        THEN LET h == RemoteChain_get(rs, key, gouts, souts)
             IN  IF h.ret # None
                 THEN [local |-> LocalAudioCache_set(c, key, h.ret),
                       remotes |-> h.remotes, ret |-> h.ret,
                       src |-> h.src, trace |-> h.trace]
                 ELSE [local |-> c, remotes |-> h.remotes, ret |-> None,
                       src |-> "", trace |-> h.trace]
        ELSE [local |-> c, remotes |-> rs, ret |-> None, src |-> "",
              trace |-> <<>>]

\* TwoLayerAudioCache.set: [local, remotes, trace].
TwoLayer_set(c, rs, key, pcm, souts) ==
    LET c2 == LocalAudioCache_set(c, key, pcm)
    IN  IF ChainEnabled(rs)
        THEN LET w == RemoteChain_set(rs, key, pcm, souts)
             IN  [local |-> c2, remotes |-> w.remotes, trace |-> w.trace]
        ELSE [local |-> c2, remotes |-> rs, trace |-> <<>>]

\* ------------------------------------------------------------ ghost state

\* The recency order after a read or write of key.
Touch(order, key) == Append(SelectSeq(order, LAMBDA k : k # key), key)

Range(seq) == {seq[i] : i \in 1..Len(seq)}

RECURSIVE SumSizes(_)
SumSizes(items) ==
    IF items = <<>> THEN 0 ELSE Len(Head(items).pcm) + SumSizes(Tail(items))

\* The entries of c that c2 no longer holds.
Evicted(c, c2) == SelectSeq(c.items, LAMBDA e : e.key \notin DictKeys(c2.items))

\* Whether set(key, pcm) is admitted by c.
Admits(c, pcm) == c.max_items > 0 /\ Len(pcm) <= c.max_bytes

\* The key of c read or written longest ago ("" when c is empty).
LruKey(c, order) ==
    IF c.items = <<>> THEN ""
    ELSE order[CHOOSE i \in 1..Len(order) :
                 /\ order[i] \in DictKeys(c.items)
                 /\ \A j \in 1..(i - 1) : order[j] \notin DictKeys(c.items)]

HistOff == [on |-> FALSE, sets |-> <<>>, size |-> -1, nevicted |-> 0, lru |-> ""]
HistInit == [HistOff EXCEPT !.on = TRUE]

\* hist after set(key, pcm) took c to c2.
HistSet(h, c, c2, order, key, pcm) ==
    IF h.on /\ key \notin Range(h.sets) /\ h.size \in {-1, Len(pcm)}
    THEN [on |-> TRUE, sets |-> Append(h.sets, key), size |-> Len(pcm),
          nevicted |-> h.nevicted + Len(Evicted(c, c2)),
          lru |-> LruKey(c, order)]
    ELSE HistOff

\* wrote after a set(key, pcm) took c to c2.
WroteSet(w, c, c2, key, pcm) ==
    [k \in StoreKeys |->
        IF k = key /\ Admits(c, pcm) THEN pcm
        ELSE IF k \in DictKeys(c.items) \ DictKeys(c2.items) THEN None
        ELSE w[k]]

\* The adapter's state between turns, and the ghost record of its stores.
NewVoiceCacheTurnMetrics ==
    [segments |-> 0, cache_hits |-> 0, cache_misses |-> 0,
     cache_hit_chars |-> 0, cache_miss_chars |-> 0,
     cache_hit_audio_bytes |-> 0, cache_miss_audio_bytes |-> 0]
\* _run and its two tasks, before _run is called: pc is _run's position, how
\* the way it left its gather, forward and synthesize the states of the
\* tasks, sent_stream that of the tokenizer stream, pushed the texts given
\* to it and consumed the sentence events read from it.
IdleRun ==
    [pc |-> "none", how |-> "", forward |-> "none", synthesize |-> "none",
     sent_stream |-> "none", pushed |-> 0, consumed |-> 0]
IdleTurn ==
    [pc |-> "idle", duration |-> <<0, 1>>, text |-> <<>>, key |-> "",
     pcm_buffer |-> <<>>, nseg |-> 0, nframes |-> 0, run |-> IdleRun]
NothingStored == [k \in StoreKeys |-> [pcm |-> None, text |-> <<>>, old |-> FALSE]]

\* The message ids the gateway may send with a done event, and none.
MessageIds == {"m1", "m2"}
NoId == ""

\* llm_node before the first reply, and the report of a turn that has not
\* reported: no descriptor has been appended or consumed.
IdleLlm ==
    [pc |-> "idle", msg |-> NoId, appended |-> <<>>,
     attempt |-> 0, chunk_count |-> 0, posts |-> 0, received |-> 0,
     done |-> FALSE, out |-> <<>>, gaps |-> <<>>]
NoReport ==
    [count |-> 0, message_id |-> NoId, outcome |-> "", raised |-> FALSE,
     cancelled |-> FALSE, consumed |-> <<>>]
InitTurnVars ==
    /\ turn = IdleTurn
    /\ turn_metrics = NewVoiceCacheTurnMetrics
    /\ emitter = <<>>
    /\ transcript = <<>>
    /\ tts_calls = <<>>
    /\ stored = NothingStored
    /\ llm = IdleLlm
    /\ pending_turns = <<>>
    /\ reported = NoReport

\* n alternates, so that two calls in a row never leave the same record.
NoCall == [n |-> 0, op |-> "none", key |-> "", pcm |-> None, ret |-> None,
           src |-> "", trace |-> <<>>]
LocalCall(op, key, pcm, ret) ==
    [n |-> 1 - call.n, op |-> op, key |-> key, pcm |-> pcm, ret |-> ret,
     src |-> "", trace |-> <<>>]

\* ------------------------------------------- the local cache under calls

Init ==
    /\ local \in {NewLocalAudioCache(mi, mb) :
                    mi \in 0..MaxItemsCfg, mb \in 1..MaxBytesCfg}
    /\ used = <<>>
    /\ wrote = [k \in StoreKeys |-> None]
    /\ hist = HistInit
    /\ remotes = <<>>
    /\ call = NoCall
    /\ InitTurnVars

\* One call of LocalAudioCache.get.
LocalGet ==
    \E key \in Keys :
        LET r == LocalAudioCache_get(local, key)
        IN  /\ local' = r.cache
            /\ used' = IF r.ret # None THEN Touch(used, key) ELSE used
            /\ call' = LocalCall("get", key, None, r.ret)
            /\ UNCHANGED <<wrote, hist, remotes, turnVars, sessionVars>>

\* One call of LocalAudioCache.set.
LocalSet ==
    \E key \in Keys, pcm \in Payloads :
        LET c2 == LocalAudioCache_set(local, key, pcm)
        IN  /\ local' = c2
            /\ used' = IF Admits(local, pcm) THEN Touch(used, key) ELSE used
            /\ wrote' = WroteSet(wrote, local, c2, key, pcm)
            /\ hist' = HistSet(hist, local, c2, used, key, pcm)
            /\ call' = LocalCall("set", key, pcm, None)
            /\ UNCHANGED <<remotes, turnVars, sessionVars>>

Next == LocalGet \/ LocalSet

Spec == Init /\ [][Next]_vars

\* --------------------------------- the local cache under concurrent tasks

\* The keys and payloads of the tasks' calls.
ConcKeys == {"A", "B"}
ConcPayloads == {<<7>>, <<9, 9>>}

Tasks == 1..MaxTasks

\* A task between calls.  old is the local variable of set; expect (ghost)
\* is what the same call returns when the calls run one after the other in
\* the order serial records.
IdleTask ==
    [pc |-> "idle", op |-> "", key |-> "", pcm |-> None, ret |-> None,
     old |-> None, expect |-> None, n |-> 0]

\* lock is the task holding self._lock (0: nobody); serial (ghost) is the
\* cache of the one-after-the-other run, order the calls it has run.
ConcCall(tasks, lock, serial, order) ==
    [op |-> "conc", tasks |-> tasks, lock |-> lock, serial |-> serial,
     order |-> order]

InitConc ==
    /\ local \in {NewLocalAudioCache(mi, mb) :
                    mi \in 0..MaxItemsCfg, mb \in 1..MaxBytesCfg}
    /\ used = <<>>
    /\ wrote = [k \in StoreKeys |-> None]
    /\ hist = HistOff
    /\ remotes = <<>>
    /\ call = ConcCall([i \in Tasks |-> IdleTask], 0, local, <<>>)
    /\ InitTurnVars

\* A step of task i that takes it to t, the cache to c and the lock to l.
ConcStep(i, t, c, l) ==
    /\ local' = c
    /\ call' = [call EXCEPT !.tasks[i] = t, !.lock = l]
    /\ UNCHANGED <<used, wrote, hist, remotes, turnVars, sessionVars>>

\* A step of task i that also runs its call on the serial cache.
ConcStepSerial(i, t, c, l, s) ==
    /\ local' = c
    /\ call' = [call EXCEPT !.tasks[i] = t, !.lock = l, !.serial = s,
                            !.order = Append(@, <<i, t.op, t.key>>)]
    /\ UNCHANGED <<used, wrote, hist, remotes, turnVars, sessionVars>>

\* The cache and the result of the call of t run in one piece on c.
SerialRun(c, t) ==
    IF t.op = "get" THEN LocalAudioCache_get(c, t.key)
    ELSE [cache |-> LocalAudioCache_set(c, t.key, t.pcm), ret |-> None]

\* Task i calls get or set: the checks made before the lock is asked for
\* return at once; otherwise the task goes on to async with self._lock.
TaskCallSizeCheckOnly(i) ==
    /\ call.tasks[i].pc = "idle"
    /\ call.tasks[i].n < MaxCalls
    /\ \E op \in {"get", "set"}, key \in ConcKeys, pcm \in ConcPayloads :
        LET t == [IdleTask EXCEPT !.op = op, !.key = key,
                                  !.pcm = IF op = "set" THEN pcm ELSE None,
                                  !.n = call.tasks[i].n + 1]
            returns == op = "set" /\ Len(pcm) > local.max_bytes
        IN  /\ op = "get" => pcm = <<7>>
            /\ IF returns
               THEN ConcStepSerial(i, [t EXCEPT !.pc = "done"], local, call.lock,
                                   SerialRun(call.serial, t).cache)
               ELSE ConcStep(i, [t EXCEPT !.pc = "lock"], local, call.lock)
TaskCall(i) ==
    /\ call.tasks[i].pc = "idle"
    /\ call.tasks[i].n < MaxCalls
    /\ \E op \in {"get", "set"}, key \in ConcKeys, pcm \in ConcPayloads :
        LET t == [IdleTask EXCEPT !.op = op, !.key = key,
                                  !.pcm = IF op = "set" THEN pcm ELSE None,
                                  !.n = call.tasks[i].n + 1]
            returns == \/ local.max_items <= 0
                       \/ op = "set" /\ Len(pcm) > local.max_bytes
        IN  /\ op = "get" => pcm = <<7>>
            /\ IF returns
               THEN ConcStepSerial(i, [t EXCEPT !.pc = "done"], local, call.lock,
                                   SerialRun(call.serial, t).cache)
               ELSE ConcStep(i, [t EXCEPT !.pc = "lock"], local, call.lock)

\* async with self._lock: the task goes in when no task holds the lock,
\* and waits otherwise.
TaskAcquireUnguarded(i) ==
    /\ call.tasks[i].pc = "lock"
    /\ LET t == call.tasks[i]
           r == SerialRun(call.serial, t)
       IN  ConcStepSerial(i, [t EXCEPT !.pc = "in", !.expect = r.ret],
                          local, i, r.cache)
TaskAcquire(i) ==
    /\ call.tasks[i].pc = "lock"
    /\ call.lock = 0
    /\ LET t == call.tasks[i]
           r == SerialRun(call.serial, t)
       IN  ConcStepSerial(i, [t EXCEPT !.pc = "in", !.expect = r.ret],
                          local, i, r.cache)

\* get under the lock: pcm = self._items.get(key); move_to_end on a hit.
TaskGetBody(i) ==
    /\ call.tasks[i].pc = "in"
    /\ call.tasks[i].op = "get"
    /\ LET t == call.tasks[i]
           pcm == DictGet(local.items, t.key)
       IN  IF pcm = None
           THEN ConcStep(i, [t EXCEPT !.pc = "release"], local, call.lock)
           ELSE ConcStep(i, [t EXCEPT !.pc = "release", !.ret = pcm],
                         [local EXCEPT !.items = MoveToEnd(local.items, t.key)],
                         call.lock)

\* set under the lock: old = self._items.get(key), and its size is taken
\* off the byte counter.
TaskSetOld(i) ==
    /\ call.tasks[i].pc = "in"
    /\ call.tasks[i].op = "set"
    /\ LET t == call.tasks[i]
           old == DictGet(local.items, t.key)
       IN  ConcStep(i, [t EXCEPT !.pc = "put", !.old = old],
                    [local EXCEPT !.current_bytes =
                        IF old # None THEN @ - Len(old) ELSE @],
                    call.lock)

\* set under the lock: the entry is written and counted, and moved to the end.
TaskSetPut(i) ==
    /\ call.tasks[i].pc = "put"
    /\ LET t == call.tasks[i]
           put == DictSetItem(local.items, t.key, t.pcm)
       IN  ConcStep(i, [t EXCEPT !.pc = "evict"],
                    [local EXCEPT !.items = MoveToEnd(put, t.key),
                                  !.current_bytes = @ + Len(t.pcm)],
                    call.lock)

\* set under the lock: one round of the while loop, or its end.
TaskSetEvict(i) ==
    /\ call.tasks[i].pc = "evict"
    /\ LET t == call.tasks[i]
       IN  IF /\ \/ Len(local.items) > local.max_items
                 \/ local.current_bytes > local.max_bytes
              /\ local.items # <<>>
           THEN ConcStep(i, t,
                         [local EXCEPT !.items = Tail(@),
                                       !.current_bytes = @ - Len(Head(local.items).pcm)],
                         call.lock)
           ELSE ConcStep(i, [t EXCEPT !.pc = "release"], local, call.lock)

\* The with block is left: the lock is given back and the call returns.
TaskRelease(i) ==
    /\ call.tasks[i].pc = "release"
    /\ ConcStep(i, [call.tasks[i] EXCEPT !.pc = "done"], local,
                IF call.lock = i THEN 0 ELSE call.lock)

\* The task has its result and may call again.
TaskReturn(i) ==
    /\ call.tasks[i].pc = "done"
    /\ ConcStep(i, [call.tasks[i] EXCEPT !.pc = "idle"], local, call.lock)

NextConc ==
    \E i \in Tasks :
        \/ TaskCall(i) \/ TaskAcquire(i) \/ TaskGetBody(i) \/ TaskSetOld(i)
        \/ TaskSetPut(i) \/ TaskSetEvict(i) \/ TaskRelease(i) \/ TaskReturn(i)

SpecConc == InitConc /\ [][NextConc]_vars

\* ------------------------------------------- the two-tier facade under calls

\* The keys and payloads of the facade's calls, and what another worker
\* sharing a backend may have stored there (possibly above this worker's cap).
FacadeKeys == {"A"}
FacadePayloads == {<<7>>, <<7, 7>>, <<7, 7, 7>>}
ForeignPayloads == {<<9>>, <<1, 2, 3>>}

\* get_tts_cache, for a list of two candidate backends: the chain keeps the
\* enabled ones.
InitFacade ==
    /\ local \in {NewLocalAudioCache(mi, mb) :
                    mi \in 0..MaxItemsCfg, mb \in 1..MaxBytesCfg}
    /\ used = <<>>
    /\ wrote = [k \in StoreKeys |-> None]
    /\ hist = HistOff
    /\ remotes \in {NewRemoteChain(
                       <<NewRedisAudioCache("R1", u1, TTS_CACHE_MAX_AUDIO_BYTES),
                         NewRedisAudioCache("R2", u2, TTS_CACHE_MAX_AUDIO_BYTES)>>) :
                     u1 \in BOOLEAN, u2 \in BOOLEAN}
    /\ call = NoCall
    /\ InitTurnVars

FacadeCall(op, key, pcm, ret, src, trace) ==
    [n |-> 1 - call.n, op |-> op, key |-> key, pcm |-> pcm, ret |-> ret,
     src |-> src, trace |-> trace]

\* One call of TwoLayerAudioCache.get.
FacadeGet ==
    \E key \in FacadeKeys,
       gouts \in OutcomeSeqs(remotes, GetOutcomes),
       souts \in [1..Len(remotes) -> SetOutcomes \ {"ctor_fail"}] :
        LET r == TwoLayer_get(local, remotes, key, gouts, souts)
            filled == r.ret # None /\ r.src # "local"
        IN  /\ local' = r.local
            /\ remotes' = r.remotes
            /\ used' = IF r.src = "local" \/ (filled /\ Admits(local, r.ret))
                       THEN Touch(used, key) ELSE used
            /\ wrote' = IF filled THEN WroteSet(wrote, local, r.local, key, r.ret)
                        ELSE wrote
            /\ call' = FacadeCall("fget", key, None, r.ret, r.src, r.trace)
            /\ UNCHANGED <<hist, turnVars, sessionVars>>

\* One call of TwoLayerAudioCache.set.
FacadeSet ==
    \E key \in FacadeKeys, pcm \in FacadePayloads,
       souts \in OutcomeSeqs(remotes, SetOutcomes) :
        LET r == TwoLayer_set(local, remotes, key, pcm, souts)
        IN  /\ local' = r.local
            /\ remotes' = r.remotes
            /\ used' = IF Admits(local, pcm) THEN Touch(used, key) ELSE used
            /\ wrote' = WroteSet(wrote, local, r.local, key, pcm)
            /\ call' = FacadeCall("fset", key, pcm, None, "", r.trace)
            /\ UNCHANGED <<hist, turnVars, sessionVars>>

\* A backend's server drops an entry whose TTL has run out.
RemoteExpire ==
    \E b \in 1..Len(remotes), key \in FacadeKeys :
        /\ remotes[b].store[key] # None
        /\ remotes' = [remotes EXCEPT ![b].store[key] = None]
        /\ call' = FacadeCall("expire", key, None, None, "", <<>>)
        /\ UNCHANGED <<localVars, turnVars, sessionVars>>

\* Another worker process sharing the backend stores an entry there.
RemoteForeignSet ==
    \E b \in 1..Len(remotes), key \in FacadeKeys, pcm \in ForeignPayloads :
        /\ remotes' = [remotes EXCEPT ![b].store[key] = pcm]
        /\ call' = FacadeCall("foreign", key, pcm, None, "", <<>>)
        /\ UNCHANGED <<localVars, turnVars, sessionVars>>

NextFacade == FacadeGet \/ FacadeSet \/ RemoteExpire \/ RemoteForeignSet

SpecFacade == InitFacade /\ [][NextFacade]_vars

\* ------------------------------------------------- the adapter's turns

\* get_tts_cache: the facade of a worker process, with the Redis backend when
\* a URL is configured.
InitTurn ==
    /\ local \in {NewLocalAudioCache(mi, mb) :
                    mi \in 0..MaxItemsCfg, mb \in {1, MaxBytesCfg}}
    /\ used = <<>>
    /\ wrote = [k \in StoreKeys |-> None]
    /\ hist = HistOff
    /\ remotes \in {NewRemoteChain(
                       <<NewRedisAudioCache("redis", u, TTS_CACHE_MAX_AUDIO_BYTES)>>) :
                     u \in BOOLEAN}
    /\ call = NoCall
    /\ InitTurnVars

\* The record of a step of the turn; each step moves turn, so n can stay.
TurnCall(op, key, pcm, ret, src, trace) ==
    [n |-> 0, op |-> op, key |-> key, pcm |-> pcm, ret |-> ret,
     src |-> src, trace |-> trace]

\* The audio frames the wrapped TTS may yield, each with its data and duration.
FrameData == {<<7>>}
Frame(data) ==
    [data |-> data,
     duration |-> PcmDuration(Len(data), WrappedSampleRate, WrappedNumChannels)]

\* The hit branch of _synthesize: the metrics after a hit on text with pcm.
CountHitCharsAsBytes(m, text, pcm) ==
    [m EXCEPT !.cache_hits = @ + 1,
              !.cache_hit_chars = @ + Len(text),
              !.cache_hit_audio_bytes = @ + Len(text)]
CountHit(m, text, pcm) ==
    [m EXCEPT !.cache_hits = @ + 1,
              !.cache_hit_chars = @ + Len(text),
              !.cache_hit_audio_bytes = @ + Len(pcm)]

\* The tail of _synthesize's loop body: the metrics after a synthesis of
\* text that ended normally with pcm_buffer.
CountMissStoredBytesOnly(m, text, pcm_buffer) ==
    IF IsCacheable(text)
    THEN [m EXCEPT !.cache_misses = @ + 1,
                   !.cache_miss_chars = @ + Len(text),
                   !.cache_miss_audio_bytes =
                       IF Len(pcm_buffer) <= TTS_CACHE_MAX_AUDIO_BYTES
                       THEN @ + Len(pcm_buffer) ELSE @]
    ELSE m
CountMissWhateverText(m, text, pcm_buffer) ==
    [m EXCEPT !.cache_misses = @ + 1,
              !.cache_miss_chars = @ + Len(text),
              !.cache_miss_audio_bytes = @ + Len(pcm_buffer)]
CountMiss(m, text, pcm_buffer) ==
    IF pcm_buffer # <<>> /\ IsCacheable(text)
    THEN [m EXCEPT !.cache_misses = @ + 1,
                   !.cache_miss_chars = @ + Len(text),
                   !.cache_miss_audio_bytes = @ + Len(pcm_buffer)]
    ELSE IF IsCacheable(text)
    THEN [m EXCEPT !.cache_misses = @ + 1,
                   !.cache_miss_chars = @ + Len(text)]
    ELSE m

\* stored after a step took the local tier from c to c2: entries that left
\* the local tier are forgotten.
StoredAfter(st, c, c2) ==
    [k \in StoreKeys |->
        IF k \in DictKeys(c.items) \ DictKeys(c2.items)
        THEN [pcm |-> None, text |-> <<>>, old |-> FALSE]
        ELSE st[k]]

\* The turn's position once the current segment is done.
NextSegment(t) ==
    [t EXCEPT !.pc = "next", !.text = <<>>, !.key = "", !.pcm_buffer = <<>>,
              !.nframes = 0]

\* A timed transcript marker (ghost: at, the number of chunks pushed before it).
MarkerAtZero(token, start_time, at) ==
    [text |-> token, start_time |-> <<0, 1>>, at |-> at]
Marker(token, start_time, at) ==
    [text |-> token, start_time |-> start_time, at |-> at]

\* A synthesis asked of the wrapped TTS (ghost): its text, how it ended, the
\* index of its first chunk in the emitter and the duration when it began.
TtsCall(text) ==
    [text |-> text, result |-> "running", first |-> Len(emitter) + 1,
     t0 |-> turn.duration]
EndTtsCall(calls, result) == [calls EXCEPT ![Len(calls)].result = result]

\* _run is over: its locals, its emitter and its metrics are gone.
TurnOver ==
    /\ turn' = IdleTurn
    /\ turn_metrics' = NewVoiceCacheTurnMetrics
    /\ emitter' = <<>>
    /\ transcript' = <<>>
    /\ tts_calls' = <<>>

\* An exception left a backend call of the facade.
Raised(trace) == \E i \in DOMAIN trace : trace[i].eff = "raised"

\* An exception leaves the facade call of _synthesize, which has no handler
\* around it: it leaves _synthesize, gather and _run.
TurnRaises(op, rs, trace) ==
    /\ TurnOver
    /\ remotes' = rs
    /\ reported' = [reported EXCEPT !.raised = TRUE]
    /\ call' = TurnCall(op, turn.key, None, None, "", trace)
    /\ UNCHANGED <<localVars, stored, llm, pending_turns>>

\* The pipeline starts a reply: llm_node is called and _run starts
\* _synthesize on its output.
StartTurn ==
    /\ turn.pc = "idle"
    /\ turn' = [IdleTurn EXCEPT !.pc = "next"]
    /\ UNCHANGED <<turn_metrics, emitter, transcript, tts_calls>>
    /\ stored' = [k \in StoreKeys |->
                    [stored[k] EXCEPT !.old = stored[k].pcm # None]]
    /\ llm' = [llm EXCEPT !.pc = "streaming", !.msg = NoId]
    /\ reported' = [NoReport EXCEPT !.consumed = reported.consumed]
    /\ call' = TurnCall("start", "", None, None, "", <<>>)
    /\ UNCHANGED <<localVars, remotes, pending_turns>>

\* The sentence stream yields a token, in a turn of at most n of them: the
\* loop body up to its first await.
Segment(n) ==
    \E token \in Tokens :
        LET text == Strip(token)
        IN  /\ turn.pc = "next"
            /\ turn.nseg < n
            /\ transcript' = Append(transcript,
                                    Marker(token, turn.duration, Len(emitter)))
            /\ IF text = <<>>
               THEN /\ turn' = [turn EXCEPT !.nseg = @ + 1]
                    /\ UNCHANGED <<turn_metrics, tts_calls>>
               ELSE /\ turn_metrics' = [turn_metrics EXCEPT !.segments = @ + 1]
                    /\ IF IsCacheable(text)
                       THEN /\ turn' = [turn EXCEPT !.pc = "get", !.text = text,
                                                    !.key = CacheKey(text),
                                                    !.nseg = @ + 1]
                            /\ UNCHANGED tts_calls
                       ELSE /\ turn' = [turn EXCEPT !.pc = "synth", !.text = text,
                                                    !.key = CacheKey(text),
                                                    !.nseg = @ + 1]
                            /\ tts_calls' = Append(tts_calls, TtsCall(text))
            /\ call' = TurnCall("segment", "", None, None, "", <<>>)
            /\ UNCHANGED <<localVars, remotes, emitter, stored, sessionVars>>

SegmentEvent == Segment(MaxSegments)

\* await self._tts._cache.get(cache_key) returns: the hit branch, or the
\* start of the synthesis.
CacheGet ==
    \E gouts \in OutcomeSeqs(remotes, GetOutcomes),
       souts \in [1..Len(remotes) -> SetOutcomes \ {"ctor_fail"}] :
        LET r == TwoLayer_get(local, remotes, turn.key, gouts, souts)
            filled == r.ret # None /\ r.src # "local"
        IN  /\ turn.pc = "get"
            /\ IF Raised(r.trace)
               THEN TurnRaises("fget", r.remotes, r.trace)
               ELSE
                /\ local' = r.local
                /\ remotes' = r.remotes
                /\ used' = IF r.src = "local" \/ (filled /\ Admits(local, r.ret))
                           THEN Touch(used, turn.key) ELSE used
                /\ wrote' = IF filled
                            THEN WroteSet(wrote, local, r.local, turn.key, r.ret)
                            ELSE wrote
                /\ stored' = StoredAfter(stored, local, r.local)
                /\ call' = TurnCall("fget", turn.key, None, r.ret, r.src, r.trace)
                /\ IF r.ret # None
                   THEN /\ emitter' = Append(emitter, [pcm |-> r.ret, cached |-> TRUE])
                        /\ turn' = [NextSegment(turn) EXCEPT
                                      !.duration = RatAdd(@, PcmDuration(Len(r.ret),
                                                      WrappedSampleRate, WrappedNumChannels))]
                        /\ turn_metrics' = CountHit(turn_metrics, turn.text, r.ret)
                        /\ UNCHANGED tts_calls
                   ELSE /\ turn' = [turn EXCEPT !.pc = "synth"]
                        /\ tts_calls' = Append(tts_calls, TtsCall(turn.text))
                        /\ UNCHANGED <<emitter, turn_metrics>>
                /\ UNCHANGED <<hist, transcript, sessionVars>>

\* The wrapped TTS yields an audio frame.
SynthFrame ==
    \E data \in FrameData :
        LET audio == Frame(data)
        IN  /\ turn.pc = "synth"
            /\ turn.nframes < MaxFrames
            /\ turn' = [turn EXCEPT !.pcm_buffer = @ \o audio.data,
                                    !.duration = RatAdd(@, audio.duration),
                                    !.nframes = @ + 1]
            /\ emitter' = Append(emitter, [pcm |-> audio.data, cached |-> FALSE])
            /\ call' = TurnCall("frame", "", None, None, "", <<>>)
            /\ UNCHANGED <<localVars, remotes, turn_metrics, transcript,
                           tts_calls, stored, sessionVars>>

\* Whether the adapter stores the buffer of a synthesis of text that ended
\* normally.
ShouldStoreAnySize(text, pcm_buffer) ==
    pcm_buffer # <<>> /\ IsCacheable(text)
ShouldStore(text, pcm_buffer) ==
    /\ pcm_buffer # <<>>
    /\ IsCacheable(text)
    /\ Len(pcm_buffer) <= TTS_CACHE_MAX_AUDIO_BYTES

\* The wrapped TTS's stream ends: the code after the try block, up to the
\* await of the store if there is one to make.
SynthEnd ==
    /\ turn.pc = "synth"
    /\ IF ShouldStore(turn.text, turn.pcm_buffer)
       THEN /\ turn' = [turn EXCEPT !.pc = "set"]
            /\ UNCHANGED turn_metrics
       ELSE /\ turn' = NextSegment(turn)
            /\ turn_metrics' = CountMiss(turn_metrics, turn.text, turn.pcm_buffer)
    /\ tts_calls' = EndTtsCall(tts_calls, "done")
    /\ call' = TurnCall("synth_end", "", None, None, "", <<>>)
    /\ UNCHANGED <<localVars, remotes, emitter, transcript, stored, sessionVars>>

\* The wrapped TTS raises an Exception: logged, and the loop goes on.
SynthFaultAborts ==
    /\ turn.pc = "synth"
    /\ TurnOver
    /\ reported' = [reported EXCEPT !.raised = TRUE]
    /\ call' = TurnCall("synth_fault", "", None, None, "", <<>>)
    /\ UNCHANGED <<localVars, remotes, stored, llm, pending_turns>>
SynthFaultStoresPartial ==
    /\ turn.pc = "synth"
    /\ turn' = NextSegment(turn)
    /\ local' = LocalAudioCache_set(local, turn.key, turn.pcm_buffer)
    /\ tts_calls' = EndTtsCall(tts_calls, "fault")
    /\ call' = TurnCall("synth_fault", "", None, None, "", <<>>)
    /\ UNCHANGED <<used, wrote, hist, remotes, turn_metrics, emitter, transcript,
                   stored, sessionVars>>
SynthFault ==
    /\ turn.pc = "synth"
    /\ turn' = NextSegment(turn)
    /\ tts_calls' = EndTtsCall(tts_calls, "fault")
    /\ call' = TurnCall("synth_fault", "", None, None, "", <<>>)
    /\ UNCHANGED <<localVars, remotes, turn_metrics, emitter, transcript,
                   stored, sessionVars>>

\* await self._tts._cache.set(cache_key, pcm) returns, and the miss is counted.
CacheSet ==
    \E souts \in OutcomeSeqs(remotes, SetOutcomes) :
        LET pcm == turn.pcm_buffer
            r == TwoLayer_set(local, remotes, turn.key, pcm, souts)
        IN  /\ turn.pc = "set"
            /\ IF Raised(r.trace)
               THEN TurnRaises("fset", r.remotes, r.trace)
               ELSE
                /\ local' = r.local
                /\ remotes' = r.remotes
                /\ used' = IF Admits(local, pcm) THEN Touch(used, turn.key) ELSE used
                /\ wrote' = WroteSet(wrote, local, r.local, turn.key, pcm)
                /\ stored' = [StoredAfter(stored, local, r.local) EXCEPT
                                ![turn.key] = [pcm |-> pcm, text |-> turn.text,
                                               old |-> FALSE]]
                /\ call' = TurnCall("fset", turn.key, pcm, None, "", r.trace)
                /\ turn' = NextSegment(turn)
                /\ turn_metrics' = CountMiss(turn_metrics, turn.text, pcm)
                /\ UNCHANGED <<hist, emitter, transcript, tts_calls, sessionVars>>

\* VoiceCacheTurnMetrics.has_data.
HasDataAnySegment(m) == m.segments > 0
HasData(m) == m.cache_hits + m.cache_misses > 0

\* What post_voice_cache_metrics does with the metrics of a turn: it goes on
\* to its POST, or returns at once ("empty" for a turn without a segment,
\* "no_data" for one whose segments gave neither a hit nor a miss).
CallbackOutcome(m) ==
    IF HasData(m) THEN "posting"
    ELSE IF m.segments = 0 THEN "empty" ELSE "no_data"

\* report_cache_metrics up to its await: the descriptor it takes from the
\* deque, and the deque after.
PopNewest(q) ==
    IF q # <<>> THEN [meta |-> <<q[Len(q)]>>, rest |-> SubSeq(q, 1, Len(q) - 1)]
    ELSE [meta |-> <<>>, rest |-> q]
PopLeft(q) ==
    IF q # <<>> THEN [meta |-> <<Head(q)>>, rest |-> Tail(q)]
    ELSE [meta |-> <<>>, rest |-> q]

\* The sentence stream is exhausted after llm_node has returned: the loop
\* ends and the metrics callback is called; it takes a descriptor and, when
\* the metrics have data, awaits the POST.
EndInputBeforeClose ==
    LET p == PopLeft(pending_turns)
        message_id == IF p.meta # <<>> THEN p.meta[1].messageId ELSE NoId
    IN  /\ turn.pc = "next"
        /\ pending_turns' = p.rest
        /\ reported' = [reported EXCEPT
                          !.count = @ + 1,
                          !.message_id = message_id,
                          !.outcome = CallbackOutcome(turn_metrics),
                          !.consumed = @ \o p.meta]
        /\ IF HasData(turn_metrics)
           THEN /\ turn' = [turn EXCEPT !.pc = "report"]
                /\ UNCHANGED <<turn_metrics, emitter, transcript, tts_calls>>
           ELSE TurnOver
        /\ call' = TurnCall("end_input", "", None, None, "", <<>>)
        /\ UNCHANGED <<localVars, remotes, stored, llm>>
EndInput ==
    LET p == PopLeft(pending_turns)
        message_id == IF p.meta # <<>> THEN p.meta[1].messageId ELSE NoId
    IN  /\ turn.pc = "next"
        /\ llm.pc = "ended"
        /\ pending_turns' = p.rest
        /\ reported' = [reported EXCEPT
                          !.count = @ + 1,
                          !.message_id = message_id,
                          !.outcome = CallbackOutcome(turn_metrics),
                          !.consumed = @ \o p.meta]
        /\ IF HasData(turn_metrics)
           THEN /\ turn' = [turn EXCEPT !.pc = "report"]
                /\ UNCHANGED <<turn_metrics, emitter, transcript, tts_calls>>
           ELSE TurnOver
        /\ call' = TurnCall("end_input", "", None, None, "", <<>>)
        /\ UNCHANGED <<localVars, remotes, stored, llm>>

\* post_voice_cache_metrics from its POST on: whether an error leaves it.
PostOutcomes == {"ok", "rejected", "fault"}
PostVoiceCacheMetricsNoExcept(out) == out = "fault"
PostVoiceCacheMetrics(out) == FALSE

\* The POST of the metrics ends, well or not: the callback returns and the
\* turn is over.
Report ==
    \E out \in PostOutcomes :
        /\ turn.pc = "report"
        /\ TurnOver
        /\ reported' = [reported EXCEPT !.outcome = out,
                                        !.raised = PostVoiceCacheMetrics(out)]
        /\ call' = TurnCall("report", "", None, None, "", <<>>)
        /\ UNCHANGED <<localVars, remotes, stored, llm, pending_turns>>

\* llm_node reads the gateway's done event, with a message id among ids or
\* none, and returns: at most MaxDone descriptors are appended in a session.
LlmDone(ids) ==
    \E message_id \in ids :
        /\ llm.pc = "streaming"
        /\ message_id # NoId => Len(llm.appended) < MaxDone
        /\ IF message_id # NoId
           THEN /\ pending_turns' = Append(pending_turns, [messageId |-> message_id])
                /\ llm' = [llm EXCEPT
                              !.pc = "ended", !.msg = message_id,
                              !.appended = Append(@, [messageId |-> message_id])]
           ELSE /\ llm' = [llm EXCEPT !.pc = "ended"]
                /\ UNCHANGED pending_turns
        /\ UNCHANGED <<localVars, remotes, call, turnVars, reported>>

LlmDoneAnonymous == LlmDone({NoId})
LlmDoneAny == LlmDone(MessageIds \cup {NoId})

\* llm_node gives up on the gateway (a status other than 200, an error
\* event, a connection that failed for good): it yields its apology and returns.
LlmError ==
    /\ llm.pc = "streaming"
    /\ llm' = [llm EXCEPT !.pc = "ended"]
    /\ UNCHANGED <<localVars, remotes, call, turnVars, pending_turns, reported>>

\* Whether a cancellation can reach _synthesize where it is: it waits at a
\* suspended await (the sentence stream, the Redis request of a get that
\* missed locally or of a set, the TTS stream, the POST).
Suspended ==
    \/ turn.pc \in {"next", "synth", "report"}
    \/ /\ turn.pc = "get"
       /\ LocalAudioCache_get(local, turn.key).ret = None
       /\ Len(remotes) > 0
       /\ EnsureClient(remotes[1], "ok").ok
    \/ /\ turn.pc = "set"
       /\ Len(remotes) > 0
       /\ Len(turn.pcm_buffer) <= remotes[1].max_audio_bytes
       /\ EnsureClient(remotes[1], "ok").ok

\* The reply is interrupted: llm_node and _run are cancelled, and
\* CancelledError leaves _synthesize at its await.  A set has by then
\* written the local tier, and the Redis request may or may not have been
\* applied.
Cancel ==
    /\ turn.pc # "idle"
    /\ Suspended
    /\ CASE turn.pc = "get" ->
              /\ remotes' = [remotes EXCEPT ![1] = EnsureClient(@, "ok").r]
              /\ UNCHANGED <<localVars, stored>>
         [] turn.pc = "set" ->
              \E out \in {"ok", "fault"} :
                LET pcm == turn.pcm_buffer
                    c2 == LocalAudioCache_set(local, turn.key, pcm)
                IN  /\ local' = c2
                    /\ remotes' = [remotes EXCEPT
                          ![1] = RedisAudioCache_set(@, turn.key, pcm, out).r]
                    /\ used' = IF Admits(local, pcm) THEN Touch(used, turn.key)
                               ELSE used
                    /\ wrote' = WroteSet(wrote, local, c2, turn.key, pcm)
                    /\ stored' = [StoredAfter(stored, local, c2) EXCEPT
                                    ![turn.key] = [pcm |-> pcm, text |-> turn.text,
                                                   old |-> FALSE]]
                    /\ UNCHANGED hist
         [] OTHER -> UNCHANGED <<localVars, remotes, stored>>
    /\ TurnOver
    /\ llm' = [llm EXCEPT !.pc = "idle"]
    /\ reported' = [reported EXCEPT !.cancelled = TRUE]
    /\ call' = TurnCall("cancel", "", None, None, "", <<>>)
    /\ UNCHANGED pending_turns

\* The Redis server drops an entry whose TTL has run out.
TurnRemoteExpire ==
    \E b \in 1..Len(remotes), key \in StoreKeys :
        /\ remotes[b].store[key] # None
        /\ remotes' = [remotes EXCEPT ![b].store[key] = None]
        /\ UNCHANGED <<localVars, call, turnVars, sessionVars>>

NextTurn ==
    \/ StartTurn \/ SegmentEvent \/ CacheGet \/ SynthFrame \/ SynthEnd
    \/ SynthFault \/ CacheSet \/ LlmDoneAnonymous \/ EndInput \/ Report
    \/ Cancel \/ TurnRemoteExpire

SpecTurn == InitTurn /\ [][NextTurn]_vars

\* ------------------------------------------- longer turns, local tier only

\* get_tts_cache without a Redis URL.
InitLocalOnly ==
    /\ local = NewLocalAudioCache(MaxItemsCfg, MaxBytesCfg)
    /\ used = <<>>
    /\ wrote = [k \in StoreKeys |-> None]
    /\ hist = HistOff
    /\ remotes = <<>>
    /\ call = NoCall
    /\ InitTurnVars

SegmentEventLong == Segment(MaxSegments + 1)

NextLongTurn ==
    \/ StartTurn \/ SegmentEventLong \/ CacheGet \/ SynthFrame \/ SynthEnd
    \/ SynthFault \/ CacheSet \/ LlmDoneAnonymous \/ EndInput \/ Report
    \/ Cancel

SpecLongTurn == InitLocalOnly /\ [][NextLongTurn]_vars

\* ------------------------------------------- a session of replies

SegmentEventShort == Segment(SessionSegments)

NextSession ==
    \/ StartTurn \/ SegmentEventShort \/ CacheGet \/ SynthFrame \/ SynthEnd
    \/ SynthFault \/ CacheSet \/ LlmDoneAny \/ LlmError \/ EndInput \/ Report
    \/ Cancel

SpecSession == InitLocalOnly /\ [][NextSession]_vars

\* The session with what the event loop and the timeouts of the clients
\* give: an awaited cache call returns, the stream of the wrapped TTS ends,
\* and the sentence stream ends once its input is closed and its tokens are
\* out.  Nothing is assumed of the user, who may interrupt or not.
SpecSessionFair ==
    /\ SpecSession
    /\ WF_vars(CacheGet)
    /\ WF_vars(SynthEnd)
    /\ WF_vars(CacheSet)
    /\ WF_vars(EndInput)
    /\ WF_vars(Report)

\* ------------------------------------------------- _run and its tasks

\* A task that has not ended: it runs, or it runs with a cancellation
\* requested that it has not taken yet.
Alive(t) == t \in {"running", "cancelling"}

\* task.cancel(): a request, for a task that has not ended.
CancelTask(t) == IF t = "running" THEN "cancelling" ELSE t

\* The steps of _run leave everything but turn.run as it is.
RunStep(r) ==
    /\ turn' = [turn EXCEPT !.run = r]
    /\ UNCHANGED <<localVars, remotes, call, turn_metrics, emitter, transcript,
                   tts_calls, stored, sessionVars>>

\* _run is called: the tokenizer stream is made and both tasks are created.
RunStart ==
    /\ turn.run.pc \in {"none", "left"}
    /\ RunStep([IdleRun EXCEPT !.pc = "gather", !.forward = "running",
                               !.synthesize = "running", !.sent_stream = "open"])

\* _forward_input gives a text of the input channel to the tokenizer stream.
ForwardPush ==
    /\ turn.run.forward = "running"
    /\ turn.run.sent_stream = "open"
    /\ turn.run.pushed < MaxPushed
    /\ RunStep([turn.run EXCEPT !.pushed = @ + 1])

\* The input channel is exhausted: end_input, and _forward_input returns.
ForwardEnds ==
    /\ turn.run.forward = "running"
    /\ turn.run.sent_stream = "open"
    /\ RunStep([turn.run EXCEPT !.forward = "done", !.sent_stream = "input_ended"])

\* _forward_input raises (the stream refuses the text).
ForwardFails ==
    /\ turn.run.forward = "running"
    /\ RunStep([turn.run EXCEPT !.forward = "failed"])

\* _synthesize reads a sentence event and processes it.
SynthesizeConsumes ==
    /\ turn.run.synthesize = "running"
    /\ turn.run.consumed < turn.run.pushed
    /\ RunStep([turn.run EXCEPT !.consumed = @ + 1])

\* The sentence stream is exhausted (its input ended and its events are
\* read, or it was closed): the loop ends, the callback is awaited and
\* _synthesize returns.
SynthesizeEnds ==
    /\ turn.run.synthesize = "running"
    /\ \/ turn.run.sent_stream = "closed"
       \/ turn.run.sent_stream = "input_ended"
          /\ turn.run.consumed = turn.run.pushed
    /\ RunStep([turn.run EXCEPT !.synthesize = "done"])

\* _synthesize raises outside its handler of synthesis faults (the emitter
\* refuses a push).
SynthesizeFails ==
    /\ turn.run.synthesize = "running"
    /\ RunStep([turn.run EXCEPT !.synthesize = "failed"])

\* A task with a cancellation requested takes it at its await and ends.
ForwardCancelled ==
    /\ turn.run.forward = "cancelling"
    /\ RunStep([turn.run EXCEPT !.forward = "cancelled"])
SynthesizeCancelled ==
    /\ turn.run.synthesize = "cancelling"
    /\ RunStep([turn.run EXCEPT !.synthesize = "cancelled"])

\* The supervising scope cancels _run while it awaits gather: gather passes
\* the cancellation on to the tasks that have not ended.
RunCancelled ==
    /\ turn.run.pc = "gather"
    /\ turn.run.how = ""
    /\ RunStep([turn.run EXCEPT !.how = "cancelled",
                                !.forward = CancelTask(@),
                                !.synthesize = CancelTask(@)])

\* await gather is over: both tasks returned; or one has raised, whatever
\* the other does; or, gather being cancelled, both have ended.
GatherOver ==
    /\ turn.run.pc = "gather"
    /\ \/ /\ turn.run.how = ""
          /\ turn.run.forward = "done" /\ turn.run.synthesize = "done"
          /\ RunStep([turn.run EXCEPT !.pc = "aclose", !.how = "normal"])
       \/ /\ turn.run.how = ""
          /\ "failed" \in {turn.run.forward, turn.run.synthesize}
          /\ RunStep([turn.run EXCEPT !.pc = "aclose", !.how = "failed"])
       \/ /\ turn.run.how = "cancelled"
          /\ ~Alive(turn.run.forward) /\ ~Alive(turn.run.synthesize)
          /\ RunStep([turn.run EXCEPT !.pc = "aclose"])

\* finally: await sent_stream.aclose().
RunAclose ==
    /\ turn.run.pc = "aclose"
    /\ RunStep([turn.run EXCEPT !.pc = "cancel", !.sent_stream = "closed"])

\* finally: cancel_and_wait cancels the tasks that have not ended.
RunCancelTasks ==
    /\ turn.run.pc = "cancel"
    /\ RunStep([turn.run EXCEPT !.pc = "wait",
                                !.forward = CancelTask(@),
                                !.synthesize = CancelTask(@)])

\* cancel_and_wait returns once both tasks have ended, and _run is left.
RunLeftNoWait ==
    /\ turn.run.pc = "wait"
    /\ RunStep([turn.run EXCEPT !.pc = "left"])
RunLeft ==
    /\ turn.run.pc = "wait"
    /\ ~Alive(turn.run.forward)
    /\ ~Alive(turn.run.synthesize)
    /\ RunStep([turn.run EXCEPT !.pc = "left"])

NextRun ==
    \/ RunStart \/ ForwardPush \/ ForwardEnds \/ ForwardFails
    \/ SynthesizeConsumes \/ SynthesizeEnds \/ SynthesizeFails
    \/ ForwardCancelled \/ SynthesizeCancelled \/ RunCancelled \/ GatherOver
    \/ RunAclose \/ RunCancelTasks \/ RunLeft

SpecRun == InitLocalOnly /\ [][NextRun]_vars

\* ------------------------------------- the facade under concurrent stores

\* The keys and payloads of the tasks' stores; every payload is admitted by
\* both tiers and the local tier has room for every key.
RaceKeys == {"A", "B"}
RacePayloads == {<<7>>, <<9>>}

\* A task that has not called set yet; next is the backend its chain loop
\* is at.
IdleSetter == [pc |-> "idle", key |-> "", pcm |-> None, next |-> 0]

\* get_tts_cache with two Redis backends; no task has called yet.
InitRace ==
    /\ local = NewLocalAudioCache(MaxItemsCfg, MaxBytesCfg)
    /\ used = <<>>
    /\ wrote = [k \in StoreKeys |-> None]
    /\ hist = HistOff
    /\ remotes = NewRemoteChain(
                     <<NewRedisAudioCache("R1", TRUE, TTS_CACHE_MAX_AUDIO_BYTES),
                       NewRedisAudioCache("R2", TRUE, TTS_CACHE_MAX_AUDIO_BYTES)>>)
    /\ call = [op |-> "race", tasks |-> [i \in 1..MaxTasks |-> IdleSetter]]
    /\ InitTurnVars

\* Task i calls TwoLayerAudioCache.set(key, pcm).
SetterCall(i) ==
    \E key \in RaceKeys, pcm \in RacePayloads :
        /\ call.tasks[i].pc = "idle"
        /\ call' = [call EXCEPT !.tasks[i] =
                        [pc |-> "local", key |-> key, pcm |-> pcm, next |-> 0]]
        /\ UNCHANGED <<localVars, remotes, turnVars, sessionVars>>

\* await self._local.set(key, pcm) of task i; then the chain, if enabled.
SetterLocal(i) ==
    LET t == call.tasks[i]
    IN  /\ t.pc = "local"
        /\ local' = LocalAudioCache_set(local, t.key, t.pcm)
        /\ call' = [call EXCEPT !.tasks[i] =
                        IF ChainEnabled(remotes)
                        THEN [t EXCEPT !.pc = "remote", !.next = 1]
                        ELSE [t EXCEPT !.pc = "done"]]
        /\ UNCHANGED <<used, wrote, hist, remotes, turnVars, sessionVars>>

\* await remote.set(key, pcm) of task i's chain loop, with no fault: the
\* request is applied by the backend's server and the loop goes on.
SetterRemote(i) ==
    LET t == call.tasks[i]
        w == RedisAudioCache_set(remotes[t.next], t.key, t.pcm, "ok")
    IN  /\ t.pc = "remote"
        /\ remotes' = [remotes EXCEPT ![t.next] = w.r]
        /\ call' = [call EXCEPT !.tasks[i] =
                        IF t.next < Len(remotes)
                        THEN [t EXCEPT !.next = @ + 1]
                        ELSE [t EXCEPT !.pc = "done"]]
        /\ UNCHANGED <<localVars, turnVars, sessionVars>>

NextRace ==
    \E i \in 1..MaxTasks : SetterCall(i) \/ SetterLocal(i) \/ SetterRemote(i)

SpecRace == InitRace /\ [][NextRace]_vars

\* ------------------------------------------- the configuration options

\* The characters of the strings of the configuration file and of the
\* environment, and the strings themselves.
Digits == {"0", "1", "2", "3"}
DigitValue(ch) == CASE ch = "0" -> 0 [] ch = "1" -> 1 [] ch = "2" -> 2 [] OTHER -> 3
RawStrings ==
    {<<>>, <<" ">>, <<"x">>, <<"0">>, <<"1">>, <<"3">>, <<" ", "2", " ">>,
     <<"-", "1">>, <<"1", "0">>, <<"o", "n">>, <<"O", "f", "f">>,
     <<"n", "o", " ">>}

\* str.lower(), for the letters of RawStrings.
LowerChar(ch) == IF ch = "O" THEN "o" ELSE ch
Lower(cs) == [i \in 1..Len(cs) |-> LowerChar(cs[i])]

RECURSIVE DigitsValue(_)
DigitsValue(cs) ==
    IF cs = <<>> THEN 0
    ELSE 10 * DigitsValue(SubSeq(cs, 1, Len(cs) - 1)) + DigitValue(cs[Len(cs)])

\* int(str): [ok, v]; blanks around the number and a sign are accepted.
ParseInt(cs) ==
    LET body == Strip(cs)
        neg == body # <<>> /\ Head(body) = "-"
        ds == IF neg THEN Tail(body) ELSE body
    IN  IF ds # <<>> /\ \A i \in 1..Len(ds) : ds[i] \in Digits
        THEN [ok |-> TRUE, v |-> IF neg THEN 0 - DigitsValue(ds) ELSE DigitsValue(ds)]
        ELSE [ok |-> FALSE, v |-> 0]

MaxOf(a, b) == IF a >= b THEN a ELSE b

\* os.environ.get(name): None, or a string.
Unset == [t |-> "unset"]
EnvValues == {Unset} \cup {[t |-> "str", v |-> cs] : cs \in RawStrings}

\* LK_CONFIG.get(key): None, or a JSON value (a float as a fraction n / 2).
CfgValues ==
    {[t |-> "absent"]}
    \cup {[t |-> "int", v |-> n] : n \in 0..3}
    \cup {[t |-> "bool", v |-> b] : b \in BOOLEAN}
    \cup {[t |-> "float", halves |-> h] : h \in {3, 4}}
    \cup {[t |-> "str", v |-> cs] : cs \in RawStrings}

\* _env_int(name, default, minimum=minimum).
EnvInt(raw, default, minimum) ==
    LET value == IF raw = Unset \/ Strip(raw.v) = <<>> THEN default
                 ELSE IF ParseInt(raw.v).ok THEN ParseInt(raw.v).v
                 ELSE default
    IN  MaxOf(minimum, value)

\* _cfg_int(key, env, default, minimum=minimum); a bool of the file is an
\* int instance.
CfgInt(val, raw, default, minimum) ==
    LET parsed ==
            CASE val.t = "int" -> [ok |-> TRUE, v |-> val.v]
              [] val.t = "bool" -> [ok |-> TRUE, v |-> IF val.v THEN 1 ELSE 0]
              [] val.t = "float" ->
                    IF val.halves % 2 = 0
                    THEN [ok |-> TRUE, v |-> val.halves \div 2]
                    ELSE [ok |-> FALSE, v |-> 0]
              [] val.t = "str" -> ParseInt(val.v)
              [] OTHER -> [ok |-> FALSE, v |-> 0]
    IN  IF parsed.ok THEN MaxOf(minimum, parsed.v)
        ELSE EnvInt(raw, default, minimum)

FalseWords == {<<"0">>, <<"f", "a", "l", "s", "e">>, <<"n", "o">>, <<"o", "f", "f">>}
TrueWords == {<<"1">>, <<"t", "r", "u", "e">>, <<"y", "e", "s">>, <<"o", "n">>}

\* _cfg_bool(key, env, default).
CfgBool(val, raw, default) ==
    IF val.t = "bool" THEN val.v
    ELSE IF val.t = "str" /\ Lower(Strip(val.v)) \in TrueWords THEN TRUE
    ELSE IF val.t = "str" /\ Lower(Strip(val.v)) \in FalseWords THEN FALSE
    ELSE IF raw = Unset THEN default
    ELSE Lower(Strip(raw.v)) \notin FalseWords

\* _cfg_str(key, env, default).
CfgStr(val, raw, default) ==
    IF val.t = "str" /\ Strip(val.v) # <<>> THEN Strip(val.v)
    ELSE IF raw # Unset /\ Strip(raw.v) # <<>> THEN Strip(raw.v)
    ELSE default

\* The options: how each is resolved, its default and its minimum (sizes
\* and counts scaled down; the minimum of ttsCacheLocalMaxItems is 0).
Options ==
    {[name |-> "TTS_CACHE_ENABLED", kind |-> "bool", default |-> TRUE, minimum |-> 0],
     [name |-> "TTS_CACHE_LOCAL_MAX_ITEMS", kind |-> "int", default |-> 3, minimum |-> 0],
     [name |-> "TTS_CACHE_MAX_TEXT_CHARS", kind |-> "int", default |-> 3, minimum |-> 2],
     [name |-> "TTS_CACHE_PREFIX", kind |-> "str",
      default |-> <<"j", "o", "i">>, minimum |-> 0]}

\* The module is loaded with some configuration file and some environment.
InitConfig ==
    /\ local = NewLocalAudioCache(MaxItemsCfg, MaxBytesCfg)
    /\ used = <<>>
    /\ wrote = [k \in StoreKeys |-> None]
    /\ hist = HistOff
    /\ remotes = <<>>
    /\ call \in {[op |-> "load", option |-> o, cfg |-> v, env |-> e] :
                    o \in Options, v \in CfgValues, e \in EnvValues}
    /\ InitTurnVars

\* The option's constant is computed.
Resolve ==
    /\ call.op = "load"
    /\ call' = [op |-> "resolved", option |-> call.option, cfg |-> call.cfg,
                env |-> call.env,
                value |-> CASE call.option.kind = "int" ->
                                  CfgInt(call.cfg, call.env, call.option.default,
                                         call.option.minimum)
                            [] call.option.kind = "bool" ->
                                  CfgBool(call.cfg, call.env, call.option.default)
                            [] OTHER ->
                                  CfgStr(call.cfg, call.env, call.option.default)]
    /\ UNCHANGED <<localVars, remotes, turnVars, sessionVars>>

NextConfig == Resolve

SpecConfig == InitConfig /\ [][NextConfig]_vars

\* ------------------------------------------------- the key builder

\* The texts and the fingerprints the key builder is applied to: words with
\* blanks, tabs and line ends anywhere, and two voices.
KeyChars == {" ", "\t", "\n", "a", "b"}
KeyTexts == UNION {[1..n -> KeyChars] : n \in 0..MaxTextLen}
Fingerprints == {Fingerprint, [Fingerprint EXCEPT !.voice = "v2"]}

\* Two texts and a fingerprint are chosen.
InitKey ==
    /\ local = NewLocalAudioCache(MaxItemsCfg, MaxBytesCfg)
    /\ used = <<>>
    /\ wrote = [k \in StoreKeys |-> None]
    /\ hist = HistOff
    /\ remotes = <<>>
    /\ call \in {[op |-> "input", s |-> s, t |-> t, fp |-> fp] :
                    s \in KeyTexts, t \in KeyTexts, fp \in Fingerprints}
    /\ InitTurnVars

\* _normalize_cache_text and _build_tts_cache_key are applied to them.
BuildKeys ==
    /\ call.op = "input"
    /\ call' = [op |-> "build_key", s |-> call.s, t |-> call.t, fp |-> call.fp,
                normalized_s |-> NormalizeCacheText(call.s),
                normalized_t |-> NormalizeCacheText(call.t),
                renormalized_s |-> NormalizeCacheText(NormalizeCacheText(call.s)),
                key_s |-> BuildTtsCacheKey(call.s, call.fp),
                key_t |-> BuildTtsCacheKey(call.t, call.fp)]
    /\ UNCHANGED <<localVars, remotes, turnVars, sessionVars>>

NextKey == BuildKeys

SpecKey == InitKey /\ [][NextKey]_vars

\* ------------------------------------------------- JOIAgent.llm_node

\* llm_node attempt by attempt.  llm.attempt is the loop variable,
\* llm.chunk_count the deltas of the current response, llm.out what the
\* generator has yielded; llm.posts counts the POSTs of the invocation,
\* llm.received its deltas, llm.done whether a done event was read, and
\* llm.gaps[k] is the backoff slept, in tenths of a second, between attempt
\* k and attempt k + 1.
ApologyError == "Sorry, I encountered an error."
ApologyConnect == "Sorry, I couldn't connect to the server."

\* backoff_s = 0.3 * attempt, in tenths of a second.
Backoff(attempt) == 3 * attempt

\* Yields s and returns.
YieldAndReturn(s) == llm' = [llm EXCEPT !.pc = "ended", !.out = Append(@, s)]

\* The pipeline calls llm_node; without user text it returns at once, else
\* it enters its loop with attempt = 1.
NodeCall ==
    \E user_text \in BOOLEAN :
        /\ llm.pc \in {"idle", "ended"}
        /\ llm' = [IdleLlm EXCEPT
                      !.appended = llm.appended,
                      !.pc = IF user_text THEN "post" ELSE "ended",
                      !.attempt = IF user_text THEN 1 ELSE 0]
        /\ UNCHANGED <<localVars, remotes, call, turnVars, pending_turns, reported>>

\* The top of the loop body: chunk_count = 0 and the POST is sent.
NodePost ==
    /\ llm.pc = "post"
    /\ llm' = [llm EXCEPT !.pc = "status", !.chunk_count = 0, !.posts = @ + 1]
    /\ UNCHANGED <<localVars, remotes, call, turnVars, pending_turns, reported>>

\* The response arrives: a status other than 200 is answered with the
\* apology; with 200 the body is read line by line.
NodeStatus ==
    \E ok \in BOOLEAN :
        /\ llm.pc = "status"
        /\ IF ok THEN llm' = [llm EXCEPT !.pc = "reading"]
           ELSE YieldAndReturn(ApologyError)
        /\ UNCHANGED <<localVars, remotes, call, turnVars, pending_turns, reported>>

\* A stream event: counted, and its delta is yielded unless the replacer
\* holds it back or nothing is left of it after cleaning.
NodeDelta ==
    \E spoken \in BOOLEAN :
        /\ llm.pc = "reading"
        /\ llm.chunk_count < MaxChunks
        /\ llm' = [llm EXCEPT
                      !.chunk_count = @ + 1,
                      !.received = @ + 1,
                      !.out = IF spoken THEN Append(@, "delta") ELSE @]
        /\ UNCHANGED <<localVars, remotes, call, turnVars, pending_turns, reported>>

\* The done event: the descriptor is queued when the event has a message
\* id, what the replacer held back is yielded, and llm_node returns.
NodeDone ==
    \E message_id \in MessageIds \cup {NoId}, remaining \in BOOLEAN :
        /\ llm.pc = "reading"
        /\ message_id # NoId => Len(llm.appended) < MaxDone
        /\ pending_turns' = IF message_id # NoId
                            THEN Append(pending_turns, [messageId |-> message_id])
                            ELSE pending_turns
        /\ llm' = [llm EXCEPT
                      !.pc = "ended", !.done = TRUE, !.msg = message_id,
                      !.appended = IF message_id # NoId
                                   THEN Append(@, [messageId |-> message_id])
                                   ELSE @,
                      !.out = IF remaining THEN Append(@, "delta") ELSE @]
        /\ UNCHANGED <<localVars, remotes, call, turnVars, reported>>

\* The error event: the apology, and llm_node returns.
NodeErrorEvent ==
    /\ llm.pc = "reading"
    /\ YieldAndReturn(ApologyError)
    /\ UNCHANGED <<localVars, remotes, call, turnVars, pending_turns, reported>>

\* aiohttp.ClientError or asyncio.TimeoutError, while connecting or while
\* reading: retried after the backoff when no delta of this response was
\* read and attempts are left, else the apology.
NodeTransportFault ==
    /\ llm.pc \in {"status", "reading"}
    /\ IF llm.chunk_count = 0 /\ llm.attempt < VOICE_CHAT_MAX_ATTEMPTS
       THEN llm' = [llm EXCEPT !.pc = "sleep"]
       ELSE YieldAndReturn(ApologyConnect)
    /\ UNCHANGED <<localVars, remotes, call, turnVars, pending_turns, reported>>

\* asyncio.sleep(backoff_s) is over: continue, with the next attempt.
NodeWake ==
    /\ llm.pc = "sleep"
    /\ llm' = [llm EXCEPT !.pc = "post", !.attempt = @ + 1,
                          !.gaps = Append(@, Backoff(llm.attempt))]
    /\ UNCHANGED <<localVars, remotes, call, turnVars, pending_turns, reported>>

\* Any other exception in the loop body (a line that is not JSON, an event
\* without type): the apology, and llm_node returns.
NodeOtherException ==
    /\ llm.pc \in {"status", "reading"}
    /\ YieldAndReturn(ApologyConnect)
    /\ UNCHANGED <<localVars, remotes, call, turnVars, pending_turns, reported>>

\* The body of the response ends with neither a done nor an error event:
\* the async for ends, the with blocks are left without an exception, and
\* the for loop goes on to its next attempt, or ends after the last one.
NodeBodyEnds ==
    /\ llm.pc = "reading"
    /\ IF llm.attempt < VOICE_CHAT_MAX_ATTEMPTS
       THEN llm' = [llm EXCEPT !.pc = "post", !.attempt = @ + 1,
                               !.gaps = Append(@, 0)]
       ELSE llm' = [llm EXCEPT !.pc = "ended"]
    /\ UNCHANGED <<localVars, remotes, call, turnVars, pending_turns, reported>>

NextLlmNode ==
    \/ NodeCall \/ NodePost \/ NodeStatus \/ NodeDelta \/ NodeDone
    \/ NodeErrorEvent \/ NodeTransportFault \/ NodeWake \/ NodeOtherException
    \/ NodeBodyEnds

SpecLlmNode == InitLocalOnly /\ [][NextLlmNode]_vars

\* ------------------------------------------------------------------ C1

\* C1: after any sequence of get and set calls on a LocalAudioCache with
\* max_items >= 1, the byte counter is the sum of the sizes of the entries
\* held, at most max_items entries are held, and the counter is at most
\* max_bytes.
C1_LocalBounds ==
    local.max_items >= 1 =>
        /\ local.current_bytes = SumSizes(local.items)
        /\ Len(local.items) <= local.max_items
        /\ local.current_bytes <= local.max_bytes

\* A full cache at its byte bound, after a set that evicted an entry.
C1_Witness ==
    /\ call.op = "set"
    /\ local.max_items >= 2
    /\ Len(local.items) = local.max_items
    /\ local.current_bytes = local.max_bytes
    /\ \E k \in Range(used) : k \notin DictKeys(local.items)

\* ------------------------------------------------------------------ C2

\* C2 as stated: with max_items = N, after N+1 sets of distinct keys with
\* equal sizes (and any gets), exactly one entry has been evicted, the one
\* least recently read or written when the (N+1)-th set was made.
C2_AsStated ==
    (hist.on /\ local.max_items >= 1 /\ Len(hist.sets) = local.max_items + 1) =>
        /\ hist.nevicted = 1
        /\ DictKeys(local.items) = Range(hist.sets) \ {hist.lru}

\* C2 amended: the same, when N entries of that size fit in max_bytes.
C2_LruEviction ==
    (/\ hist.on /\ local.max_items >= 1
     /\ Len(hist.sets) = local.max_items + 1
     /\ local.max_items * hist.size <= local.max_bytes) =>
        /\ hist.nevicted = 1
        /\ DictKeys(local.items) = Range(hist.sets) \ {hist.lru}
        /\ local.current_bytes = local.max_items * hist.size

\* max_items = 2: set(A); set(B); get(A); set(C) has left {A, C}.
C2_Witness ==
    /\ local.max_items = 2
    /\ hist.on /\ hist.sets = <<"A", "B", "C">> /\ hist.size > 0
    /\ used = <<"B", "A", "C">>
    /\ DictKeys(local.items) = {"A", "C"}
    /\ local.current_bytes = 2 * hist.size

\* ------------------------------------------------------------------ C3

\* C3: set(k, v) with len(v) > max_bytes leaves the cache unchanged: keys,
\* values, order and byte counter.
C3_OversizeSetIsNoOp ==
    [][(call'.op = "set" /\ Len(call'.pcm) > local.max_bytes) => local' = local]_vars

\* An oversize set on a key the cache holds with another value, among others.
C3_Witness ==
    /\ call.op = "set" /\ Len(call.pcm) > local.max_bytes
    /\ DictGet(local.items, call.key) # None
    /\ Len(local.items) >= 2
    /\ Head(local.items).key = call.key

\* ------------------------------------------------------------------ C4

\* C4 as stated: a get(k) made right after set(k, v) returns v.
C4_AsStated ==
    [][(call.op = "set" /\ call'.op = "get" /\ call'.key = call.key)
          => call'.ret = call.pcm]_vars

\* C4 amended: a get(k) after an admitted set(k, v), with no eviction of k
\* (and no later admitted set of k) in between, returns v, and k is then last
\* in eviction order.
C4_GetAfterSet ==
    (call.op = "get" /\ wrote[call.key] # None) =>
        /\ call.ret = wrote[call.key]
        /\ local.items[Len(local.items)].key = call.key
        /\ used[Len(used)] = call.key

\* A get hit on a key that was not the most recent one, among two entries.
C4_Witness ==
    /\ call.op = "get" /\ wrote[call.key] # None
    /\ call.ret = wrote[call.key] /\ Len(call.ret) > 0
    /\ Len(local.items) >= 2
    /\ hist.on /\ Len(hist.sets) >= 2 /\ hist.sets[1] = call.key

\* ------------------------------------------------------------------ C5

\* C5 as stated: set on a key already present replaces the value and
\* changes the byte counter by exactly len(new) - len(old).
C5_AsStated ==
    [][(call'.op = "set" /\ call'.key \in DictKeys(local.items)) =>
          /\ DictGet(local'.items, call'.key) = call'.pcm
          /\ local'.current_bytes = local.current_bytes + Len(call'.pcm)
                                    - Len(DictGet(local.items, call'.key))]_vars

\* C5 amended: an admitted set on a key already present replaces the value
\* and changes the byte counter by len(new) - len(old) less the sizes of
\* the entries the insertion evicts; set(k, v) again changes neither the
\* counter nor the keys.
C5_ReplaceDelta ==
    [][/\ (/\ call'.op = "set" /\ call'.key \in DictKeys(local.items)
           /\ Len(call'.pcm) <= local.max_bytes) =>
             /\ DictGet(local'.items, call'.key) = call'.pcm
             /\ local'.current_bytes =
                   local.current_bytes + Len(call'.pcm)
                   - Len(DictGet(local.items, call'.key))
                   - SumSizes(Evicted(local, local'))
       /\ (/\ call.op = "set" /\ call'.op = "set"
           /\ call'.key = call.key /\ call'.pcm = call.pcm) =>
             /\ local'.current_bytes = local.current_bytes
             /\ DictKeys(local'.items) = DictKeys(local.items)]_vars

\* A replacement by a payload of another size, with another entry held.
C5_Witness ==
    /\ call.op = "set"
    /\ ~hist.on
    /\ Len(local.items) >= 2
    /\ DictGet(local.items, call.key) = call.pcm
    /\ Len(call.pcm) = 2
    /\ local.current_bytes = local.max_bytes

\* ------------------------------------------------------------------ C6

\* C6: on the facade, a get(k) while the local tier holds k -> v (v admitted
\* by a set or a fill and not evicted since), and so a get(k) right after an
\* admitted set(k, v), returns (v, "local") and queries no remote backend.
C6_LocalHitFirst ==
    [][/\ (call'.op = "fget" /\ wrote[call'.key] # None) =>
             /\ call'.ret = wrote[call'.key]
             /\ call'.src = "local"
             /\ call'.trace = <<>>
             /\ remotes' = remotes
       /\ (/\ call.op = "fset" /\ Admits(local, call.pcm)
           /\ call'.op = "fget" /\ call'.key = call.key) =>
             /\ call'.ret = call.pcm
             /\ call'.src = "local"
             /\ call'.trace = <<>>]_vars

\* A local hit while the first backend holds another payload for the key.
C6_Witness ==
    /\ call.op = "fget" /\ call.src = "local" /\ call.trace = <<>>
    /\ Len(remotes) = 2
    /\ remotes[1].client
    /\ remotes[1].store[call.key] \notin {None, call.ret}

\* ------------------------------------------------------------------ C7

\* The index in the chain of the backend named src.
ChainIndex(rs, src) == CHOOSE i \in 1..Len(rs) : rs[i].name = src

RemoteHit(c) == c.op = "fget" /\ c.ret # None /\ c.src # "local"

\* C7 as stated: after a chain get(k) returned a hit produced by backend i,
\* every backend before i holds k -> pcm.
C7_AsStated ==
    RemoteHit(call) =>
        \A j \in 1..(ChainIndex(remotes, call.src) - 1) :
            remotes[j].store[call.key] = call.ret

\* C7 amended: after a chain get(k) returned a hit produced by backend i, a
\* set(k, pcm) has been made on every backend before i, and each of them
\* whose server applied the write holds k -> pcm.
C7_Backfill ==
    RemoteHit(call) =>
        \A j \in 1..(ChainIndex(remotes, call.src) - 1) :
            /\ \E t \in 1..Len(call.trace) :
                  call.trace[t].b = j /\ call.trace[t].op = "set"
            /\ \A t \in 1..Len(call.trace) :
                  (/\ call.trace[t].b = j /\ call.trace[t].op = "set"
                   /\ call.trace[t].eff \in {"stored", "lost_reply"}) =>
                      remotes[j].store[call.key] = call.ret

\* A hit from the second backend whose backfill the first one stored.
C7_Witness ==
    /\ RemoteHit(call) /\ call.src = "R2"
    /\ Len(call.trace) = 3 /\ call.trace[3].eff = "stored"
    /\ call.trace[1].eff = "miss"
    /\ remotes[1].store[call.key] = call.ret

\* ------------------------------------------------------------------ C8

\* C8 as stated: after a facade get(k) returned a hit from a remote backend,
\* the next get(k) returns the same PCM with source "local".
C8_AsStated ==
    [][(RemoteHit(call) /\ call'.op = "fget" /\ call'.key = call.key) =>
          /\ call'.ret = call.ret
          /\ call'.src = "local"]_vars

\* C8 amended: the same, when the local tier admits the payload
\* (max_items >= 1 and len(pcm) <= max_bytes).
C8_LocalFill ==
    [][(/\ RemoteHit(call) /\ Admits(local, call.ret)
        /\ call'.op = "fget" /\ call'.key = call.key) =>
          /\ call'.ret = call.ret
          /\ call'.src = "local"]_vars

\* A local hit on a payload that only another worker ever stored.
C8_Witness ==
    /\ call.op = "fget" /\ call.src = "local"
    /\ call.ret \in ForeignPayloads

\* ------------------------------------------------------------------ C9

\* The sizes of the chunks of e that came from the cache, summed.
RECURSIVE SumCached(_)
SumCached(e) ==
    IF e = <<>> THEN 0
    ELSE (IF Head(e).cached THEN Len(Head(e).pcm) ELSE 0) + SumCached(Tail(e))

\* C9: at every point of a turn, whatever its segments were (hits, misses,
\* ineligible segments, failing syntheses), cache_hits + cache_misses <=
\* segments, every counter of the turn metrics is non-negative, and
\* cache_hit_audio_bytes is the sum of the PCM sizes of the segments served
\* from the cache.
C9_TurnMetrics ==
    /\ turn_metrics.cache_hits + turn_metrics.cache_misses <= turn_metrics.segments
    /\ \A f \in DOMAIN turn_metrics : turn_metrics[f] >= 0
    /\ turn_metrics.cache_hit_audio_bytes = SumCached(emitter)

\* A turn with a hit, then a segment whose synthesis failed after a frame.
C9_Witness ==
    /\ call.op = "synth_fault"
    /\ turn_metrics.segments = 2
    /\ turn_metrics.cache_hits = 1
    /\ turn_metrics.cache_misses = 0
    /\ turn_metrics.cache_hit_audio_bytes = 2
    /\ Len(emitter) = 2

\* ------------------------------------------------------------------ C10

\* The turn is at the facade get of a segment whose text an earlier turn
\* synthesized and stored, the entry not evicted since.
StoredEarlier ==
    /\ turn.pc = "get"
    /\ stored[turn.key].pcm # None
    /\ stored[turn.key].old
    /\ stored[turn.key].text = turn.text

\* The get returns a hit tagged "local", the wrapped TTS is not invoked, the
\* stored PCM is what is pushed, and duration advances by its length over
\* sample_rate * num_channels * 2.
ServedFromLocal ==
    LET pcm == stored[turn.key].pcm
    IN  /\ call'.op = "fget"
        /\ call'.src = "local"
        /\ tts_calls' = tts_calls
        /\ emitter' = Append(emitter, [pcm |-> pcm, cached |-> TRUE])
        /\ turn'.duration =
               RatAdd(turn.duration,
                      Rat(Len(pcm), WrappedSampleRate * WrappedNumChannels * 2))
        /\ PcmDuration(48000, 24000, 1) = <<1, 1>>

\* C10 as stated: if a turn synthesizes an eligible segment with non-empty
\* PCM of at most max_audio_bytes, a later turn with the same segment text
\* (entry not evicted in between) gets a facade hit tagged "local", does not
\* invoke the wrapped TTS, pushes exactly the stored PCM and advances
\* duration by len(pcm) / (sample_rate * num_channels * 2).
C10_AsStated ==
    [][(StoredEarlier /\ turn'.pc # "get") => ServedFromLocal]_vars

\* C10 amended: the same, when the local tier admitted the stored entry
\* (max_items >= 1 and len(pcm) <= max_bytes).
C10_MissThenHit ==
    [][(StoredEarlier /\ Admits(local, stored[turn.key].pcm) /\ turn'.pc # "get")
          => ServedFromLocal]_vars

\* A later turn whose first segment was served from the local tier with the
\* two bytes an earlier turn stored: one second of audio at the model's scale.
C10_Witness ==
    /\ call.op = "fget"
    /\ call.src = "local"
    /\ stored[call.key].old
    /\ stored[call.key].pcm = call.ret
    /\ Len(call.ret) = 2
    /\ tts_calls = <<>>
    /\ emitter = <<[pcm |-> call.ret, cached |-> TRUE]>>
    /\ turn.duration = <<1, 1>>

\* ------------------------------------------------------------------ C11

\* The syntheses of this turn that ended with result, of eligible texts.
EligibleCalls(result) ==
    {i \in DOMAIN tts_calls :
        tts_calls[i].result = result /\ IsCacheable(tts_calls[i].text)}

\* The markers of this turn whose token is not blank.
SpokenMarkers == {i \in DOMAIN transcript : Strip(transcript[i].text) # <<>>}

\* The wrapped TTS raises in this step.
FaultStep == turn.pc = "synth" /\ call'.op = "synth_fault"

\* Three eligible segments missed the cache; the second synthesis raised,
\* the other two ended normally, and the loop is over.
FaultOnSecondOfThree ==
    /\ turn.pc = "report"
    /\ Len(tts_calls) = 3
    /\ EligibleCalls("done") = {1, 3}
    /\ EligibleCalls("fault") = {2}
    /\ turn_metrics.cache_hits = 0

\* C11: when the wrapped TTS raises for one segment of a turn, the PCM
\* already emitted is unaffected and the turn goes on (it does not abort);
\* every segment, those after a fault included, is attempted (served from
\* the cache or given to the wrapped TTS) and only syntheses that ended
\* normally count as misses; so three miss-eligible segments with a fault on
\* the second end the turn with segments = 3 and cache_misses = 2.
C11_FaultIsolation ==
    /\ [](/\ turn_metrics.segments = Cardinality(SpokenMarkers)
          /\ turn_metrics.segments =
                turn_metrics.cache_hits + Len(tts_calls)
                + (IF turn.pc = "get" THEN 1 ELSE 0)
          /\ turn_metrics.cache_misses =
                Cardinality(EligibleCalls("done"))
                - (IF turn.pc = "set" THEN 1 ELSE 0)
          /\ FaultOnSecondOfThree =>
                turn_metrics.segments = 3 /\ turn_metrics.cache_misses = 2)
    /\ [][FaultStep =>
            /\ turn'.pc = "next"
            /\ emitter' = emitter
            /\ turn_metrics' = turn_metrics
            /\ ~reported'.raised]_vars

\* The turn of the scenario, at its end: the first and third segments were
\* emitted and the metrics say segments = 3 and cache_misses = 2.
C11_Witness ==
    /\ FaultOnSecondOfThree
    /\ turn_metrics.segments = 3
    /\ turn_metrics.cache_misses = 2
    /\ Len(emitter) >= 2

\* ------------------------------------------------------------------ C12

\* The synthesis that is running.
RunningCall == tts_calls[Len(tts_calls)]

\* C12: a segment whose wrapped synthesis fails is skipped with no audio for
\* that sentence: wherever the provider faults (before the first frame or
\* after any number of frames), no PCM of the failed segment is in the
\* emitter output and duration has not advanced for it.
C12_AsStated ==
    [][FaultStep =>
          /\ Len(emitter') = RunningCall.first - 1
          /\ turn'.duration = RunningCall.t0]_vars

\* ------------------------------------------------------------------ C13

\* The frames of the running synthesis, joined in the order they came.
RECURSIVE ConcatPcm(_)
ConcatPcm(chunks) ==
    IF chunks = <<>> THEN <<>> ELSE Head(chunks).pcm \o ConcatPcm(Tail(chunks))
FramesOfRunningCall == SubSeq(emitter, RunningCall.first, Len(emitter))

\* The adapter is at the store of key with pcm: the synthesis of the segment
\* has ended normally and pcm is all of its frames.
CompleteWrite(key, pcm) ==
    /\ turn.pc = "set"
    /\ turn.key = key
    /\ RunningCall.result = "done"
    /\ pcm = ConcatPcm(FramesOfRunningCall)

\* C13: the adapter writes a segment into the cache only after the
\* segment's synthesis has completed successfully, and writes all of its
\* frames joined; a synthesis that fails part-way or is cancelled writes
\* nothing: every value that appears in a tier is such a complete write, or
\* the copy into the local tier of what the remote tier held.
C13_NoPartialWrite ==
    [][\A key \in StoreKeys :
          /\ \A b \in 1..Len(remotes) :
                (remotes'[b].store[key] # remotes[b].store[key]
                    /\ remotes'[b].store[key] # None)
                  => CompleteWrite(key, remotes'[b].store[key])
          /\ (DictGet(local'.items, key) # DictGet(local.items, key)
                    /\ DictGet(local'.items, key) # None)
                  => \/ CompleteWrite(key, DictGet(local'.items, key))
                     \/ /\ turn.pc = "get"
                        /\ turn.key = key
                        /\ \E b \in 1..Len(remotes) :
                              remotes[b].store[key] = DictGet(local'.items, key)
      ]_vars

\* A store of the two frames of a synthesis, joined, has reached both tiers.
C13_Witness ==
    /\ call.op = "fset"
    /\ Len(call.pcm) = 2
    /\ DictGet(local.items, call.key) = call.pcm
    /\ Len(remotes) = 1
    /\ remotes[1].store[call.key] = call.pcm
    /\ Len(emitter) >= 2
    /\ ~emitter[Len(emitter)].cached
    /\ ~emitter[Len(emitter) - 1].cached
    /\ tts_calls[Len(tts_calls)].first = Len(emitter) - 1

\* ------------------------------------------------------------------ C14

\* The synthesis of an eligible segment ends normally in this step with more
\* than max_audio_bytes of PCM.
OversizeEndStep ==
    /\ turn.pc = "synth"
    /\ call'.op = "synth_end"
    /\ IsCacheable(turn.text)
    /\ Len(turn.pcm_buffer) > TTS_CACHE_MAX_AUDIO_BYTES

\* C14: every set the adapter issues on the facade is for an eligible
\* segment with a non-empty buffer of at most max_audio_bytes; an eligible
\* segment whose PCM exceeds max_audio_bytes has been emitted and is counted
\* as a miss with its full size, and is not set into the cache.
C14_StoreOnlyWithinCap ==
    /\ [](turn.pc = "set" =>
            /\ IsCacheable(turn.text)
            /\ turn.pcm_buffer # <<>>
            /\ Len(turn.pcm_buffer) <= TTS_CACHE_MAX_AUDIO_BYTES)
    /\ [][OversizeEndStep =>
            /\ turn'.pc = "next"
            /\ ConcatPcm(FramesOfRunningCall) = turn.pcm_buffer
            /\ emitter' = emitter
            /\ turn_metrics' =
                 [turn_metrics EXCEPT
                    !.cache_misses = @ + 1,
                    !.cache_miss_chars = @ + Len(turn.text),
                    !.cache_miss_audio_bytes = @ + Len(turn.pcm_buffer)]
            /\ local' = local
            /\ remotes' = remotes]_vars

\* An eligible segment of three bytes, over the cap, was emitted and counted,
\* and no tier holds anything.
C14_Witness ==
    /\ call.op = "synth_end"
    /\ turn.pc = "next"
    /\ turn_metrics.cache_misses = 1
    /\ turn_metrics.cache_miss_audio_bytes = TTS_CACHE_MAX_AUDIO_BYTES + 1
    /\ ConcatPcm(emitter) = [i \in 1..(TTS_CACHE_MAX_AUDIO_BYTES + 1) |-> 7]
    /\ local.max_items > 0
    /\ local.items = <<>>
    /\ Len(remotes) = 1
    /\ \A key \in StoreKeys : remotes[1].store[key] = None

\* ------------------------------------------------------------------ C15

RatLeq(x, y) == x[1] * y[2] <= y[1] * x[2]

\* The playing time of chunks of 16-bit PCM at the adapter's format.
RECURSIVE AudioDuration(_)
AudioDuration(chunks) ==
    IF chunks = <<>> THEN <<0, 1>>
    ELSE RatAdd(Rat(Len(Head(chunks).pcm),
                    WrappedSampleRate * WrappedNumChannels * 2),
                AudioDuration(Tail(chunks)))

\* C15: within a turn duration never decreases, whatever the step (a hit, a
\* synthesized frame, a skipped or failed segment), and the start time of
\* each timed transcript marker is the playing time of all audio emitted
\* before its segment, so the start times do not decrease from one marker
\* to the next.
C15_DurationMonotone ==
    /\ [](/\ \A i \in DOMAIN transcript :
                transcript[i].start_time =
                    AudioDuration(SubSeq(emitter, 1, transcript[i].at))
          /\ \A i, j \in DOMAIN transcript :
                i <= j => RatLeq(transcript[i].start_time, transcript[j].start_time)
          /\ turn.pc # "idle" => turn.duration = AudioDuration(emitter))
    /\ [][(turn.pc # "idle" /\ turn'.pc # "idle")
            => RatLeq(turn.duration, turn'.duration)]_vars

\* Three markers: the second after a segment served from the cache, the
\* third after a synthesis that failed after a frame.
C15_Witness ==
    /\ Len(transcript) = 3
    /\ Len(emitter) = 2
    /\ emitter[1].cached
    /\ ~emitter[2].cached
    /\ tts_calls # <<>>
    /\ tts_calls[Len(tts_calls)].result = "fault"
    /\ transcript[1].start_time = <<0, 1>>
    /\ transcript[2].start_time = AudioDuration(SubSeq(emitter, 1, 1))
    /\ transcript[3].start_time = AudioDuration(emitter)
    /\ ~RatLeq(transcript[3].start_time, transcript[2].start_time)

\* ------------------------------------------------------------------ C16

\* The metrics callback is called in this step.
ReportStep == call'.op = "end_input"

\* q2 is q with descriptors appended, if any.
Extends(q, q2) == Len(q) <= Len(q2) /\ SubSeq(q2, 1, Len(q)) = q

\* C16: pending turn descriptors are consumed first in, first out: whatever
\* the interleaving of done events and metrics reports, the descriptors
\* consumed so far followed by those still queued are the descriptors
\* appended, in order; a report removes at most one descriptor, the oldest
\* queued, and a report that finds the queue empty removes nothing and
\* carries no message id; nothing else removes a descriptor.
C16_PendingFifo ==
    /\ [](reported.consumed \o pending_turns = llm.appended)
    /\ [][IF ReportStep
          THEN IF pending_turns = <<>>
               THEN /\ pending_turns' = <<>>
                    /\ reported'.message_id = NoId
                    /\ reported'.consumed = reported.consumed
               ELSE /\ pending_turns' = Tail(pending_turns)
                    /\ reported'.message_id = Head(pending_turns).messageId
          ELSE Extends(pending_turns, pending_turns')]_vars

\* Two descriptors were queued, m1 before m2, and a report took m1.
C16_Witness ==
    /\ call.op = "end_input"
    /\ llm.appended = <<[messageId |-> "m1"], [messageId |-> "m2"]>>
    /\ reported.consumed = <<[messageId |-> "m1"]>>
    /\ reported.message_id = "m1"
    /\ pending_turns = <<[messageId |-> "m2"]>>

\* ------------------------------------------------------------------ C17

\* The callback is called in this step with metrics that it will post.
PostingStep == ReportStep /\ HasData(turn_metrics)

\* C17 (as stated): the messageId sent with a turn's metrics is the
\* messageId recorded from that same turn's done event, or none if that turn
\* recorded none. A descriptor left queued by a turn that was cancelled
\* before its end-of-turn callback is taken by the next report.
C17_AsStated == [][PostingStep => reported'.message_id = llm.msg]_vars

\* ------------------------------------------------------------------ C18

\* The paths of a backend call on which the backend failed: the command
\* raised, the reply of an applied command was lost, or the client could not
\* be constructed (then, or in an earlier call).
FaultEffs == {"fault", "lost_reply", "ctor_failed", "unavailable"}
FaultsIn(trace, op) ==
    {i \in DOMAIN trace : trace[i].op = op /\ trace[i].eff \in FaultEffs}

\* The facade get, and the facade set, of this step met a failing backend.
GetFaultStep ==
    /\ turn.pc = "get"
    /\ call'.op = "fget"
    /\ FaultsIn(call'.trace, "get") # {}
SetFaultStep ==
    /\ turn.pc = "set"
    /\ call'.op = "fset"
    /\ FaultsIn(call'.trace, "set") # {}

\* C18: cache faults never fail the turn.  A facade get whose Redis get
\* fails returns absent, raises nothing and the segment goes to the wrapped
\* TTS; a facade set whose Redis set fails raises nothing, leaves the Redis
\* store as it was when the command was not applied, writes the local tier
\* as without the fault, counts the miss and moves to the next segment, the
\* audio of the segment being already in the emitter; and no step of a turn
\* ever raises out of _run.
C18_CacheFaultsSwallowed ==
    /\ [](~reported.raised)
    /\ [][/\ GetFaultStep =>
               /\ call'.ret = None
               /\ turn'.pc = "synth"
               /\ tts_calls' = Append(tts_calls, TtsCall(turn.text))
               /\ emitter' = emitter
               /\ turn_metrics' = turn_metrics
          /\ SetFaultStep =>
               /\ \A i \in FaultsIn(call'.trace, "set") :
                     call'.trace[i].eff # "lost_reply"
                        => remotes'[i].store = remotes[i].store
               /\ local' = LocalAudioCache_set(local, turn.key, turn.pcm_buffer)
               /\ turn'.pc = "next"
               /\ emitter' = emitter
               /\ ConcatPcm(FramesOfRunningCall) = turn.pcm_buffer
               /\ turn_metrics'.cache_misses = turn_metrics.cache_misses + 1]_vars

\* Redis holds the audio of the segment, its get failed, the facade returned
\* absent and the wrapped TTS has been called for the segment.
C18_Witness ==
    /\ call.op = "fget"
    /\ \E i \in DOMAIN call.trace :
          call.trace[i].op = "get" /\ call.trace[i].eff = "fault"
    /\ call.ret = None
    /\ remotes[1].store[turn.key] # None
    /\ turn.pc = "synth"
    /\ RunningCall.text = turn.text
    /\ RunningCall.result = "running"

\* ------------------------------------------------------------------ C19

\* The POST of the metrics callback ends in this step.
PostEndsStep == turn.pc = "report" /\ call'.op = "report"

InputClosed == turn.pc # "idle" /\ llm.pc = "ended"

\* C20: the metrics of a turn are consumed exactly once.  In no turn,
\* cancelled and failed ones included, is the callback called more than
\* once; it is called only when the input is closed and no segment is being
\* processed, and no segment is processed after it; and a turn whose input
\* is closed gets its callback unless it is cancelled.
C20_ConsumedOnce ==
    /\ [](/\ reported.count <= 1
          /\ reported.count = 1 => turn.pc \in {"report", "idle"})
    /\ [][reported'.count > reported.count =>
             /\ reported.count = 0
             /\ reported'.count = 1
             /\ turn.pc = "next"
             /\ llm.pc = "ended"
             /\ call'.op = "end_input"]_vars
    /\ [][(reported.count = 1 /\ reported'.count = 1) =>
             /\ turn_metrics'.segments <= turn_metrics.segments
             /\ Len(transcript') <= Len(transcript)]_vars
    /\ (InputClosed ~> (reported.count = 1 \/ reported.cancelled))

\* The callback was called once, after the only segment of the turn was
\* synthesized and counted, in a turn that was not cancelled.
C20_Witness ==
    /\ call.op = "end_input"
    /\ reported.count = 1
    /\ ~reported.cancelled
    /\ llm.pc = "ended"
    /\ turn.pc = "report"
    /\ turn_metrics.segments = 1
    /\ turn_metrics.cache_misses = 1

\* ------------------------------------------------------------------ C21

\* C21: empty-metrics turns are suppressed.  The callback is called at the
\* end of input whatever the metrics; it goes on to a POST exactly when
\* cache_hits + cache_misses > 0, so a turn without a segment (and one whose
\* segments all failed) is over at once with no POST; and a POST only ever
\* ends in a turn whose metrics have cache_hits + cache_misses > 0.
C21_EmptyMetricsSuppressed ==
    /\ [](turn.pc = "report" =>
             /\ turn_metrics.cache_hits + turn_metrics.cache_misses > 0
             /\ reported.outcome = "posting")
    /\ [][ReportStep =>
             /\ reported'.count = reported.count + 1
             /\ (turn'.pc = "report") <=>
                    (turn_metrics.cache_hits + turn_metrics.cache_misses > 0)
             /\ turn'.pc \in {"report", "idle"}
             /\ turn_metrics.segments = 0 =>
                    /\ turn'.pc = "idle"
                    /\ reported'.outcome = "empty"]_vars
    /\ [][PostEndsStep =>
             /\ turn_metrics.cache_hits + turn_metrics.cache_misses > 0
             /\ reported'.outcome \in PostOutcomes]_vars

\* The callback was called for a turn without a segment and returned with
\* no POST: the turn is over.
C21_Witness ==
    /\ call.op = "end_input"
    /\ reported.count = 1
    /\ reported.outcome = "empty"
    /\ turn.pc = "idle"

\* ------------------------------------------------------------------ C22

\* The POST of an attempt is sent in this step.
PostStep == llm'.posts = llm.posts + 1

\* C22 (as stated): a mid-stream failure is not retried: once a stream
\* delta has been received in an invocation of llm_node no further POST is
\* sent, and a request is sent again only after an attempt that ended with
\* a transport fault before any data, that is after its backoff.
C22_AsStated ==
    [][PostStep =>
          /\ llm.received = 0
          /\ llm.posts > 0 => llm.gaps[Len(llm.gaps)] > 0]_vars

\* ------------------------------------------------------------------ C23

\* C23 (as stated): every invocation of llm_node sends at most
\* VOICE_CHAT_MAX_ATTEMPTS POSTs; the k-th failed attempt that is followed
\* by another is followed by a backoff of 0.3 s * k first; and after the
\* last attempt no POST follows.
C23_AsStated ==
    /\ [](/\ llm.posts <= VOICE_CHAT_MAX_ATTEMPTS
          /\ \A k \in DOMAIN llm.gaps : llm.gaps[k] = Backoff(k))
    /\ [][PostStep => llm.posts < VOICE_CHAT_MAX_ATTEMPTS]_vars

\* ------------------------------------------------------------------ C24

\* C24 (as stated): an invocation of llm_node that sent a chat request and
\* returned without having read a done event yielded an apology as its last
\* output.
C24_AsStated ==
    (llm.pc = "ended" /\ llm.posts > 0 /\ ~llm.done) =>
        /\ llm.out # <<>>
        /\ llm.out[Len(llm.out)] \in {ApologyError, ApologyConnect}

\* ------------------------------------------------------------------ C25

\* The backends of the chain.
Backends == DOMAIN remotes

\* The calls of backend i in the facade call that was just made.
CallsOf(i) == {j \in DOMAIN call.trace : call.trace[j].b = i}

\* C25 (as stated): the enabled flag of a backend is constant after
\* construction, whatever faults occur in its get and set calls.
C25_AsStated ==
    [][\A i \in Backends : Enabled(remotes'[i]) = Enabled(remotes[i])]_vars

\* C25 (amended): enabled changes at most once, from true to false, and
\* only in the call in which the construction of the client fails; a backend
\* that has its client, and one that is not enabled, keep their value.
C25_EnabledMonotone ==
    [][\A i \in Backends :
          /\ ~Enabled(remotes[i]) => ~Enabled(remotes'[i])
          /\ remotes[i].client => Enabled(remotes'[i])
          /\ Enabled(remotes'[i]) # Enabled(remotes[i]) =>
                /\ ~remotes[i].client /\ ~remotes'[i].client
                /\ remotes'[i].built = remotes[i].built + 1
                /\ \E j \in DOMAIN call'.trace :
                      /\ call'.trace[j].b = i
                      /\ call'.trace[j].eff = "ctor_failed"]_vars

\* A backend was enabled when the chain took it; the construction of its
\* client failed in a facade call, and it is not enabled any more.
C25_Witness ==
    \E i \in Backends :
        /\ ~Enabled(remotes[i])
        /\ remotes[i].built = 1
        /\ ~remotes[i].client
        /\ \E j \in CallsOf(i) : call.trace[j].eff = "ctor_failed"

\* ------------------------------------------------------------------ C26

\* C26: the lifecycle of a backend's client.  AsyncRedis.from_url is called
\* at most once per backend: a client, once made, is kept and never made
\* again; after a failed construction the backend stays without a client and
\* not enabled, no construction is attempted again, every later get of it
\* returns absent and every later set of it writes nothing.
C26_ClientLifecycle ==
    /\ [](\A i \in Backends :
             /\ remotes[i].built <= 1
             /\ remotes[i].client => (remotes[i].built = 1 /\ Enabled(remotes[i]))
             /\ ~Enabled(remotes[i]) => (remotes[i].built = 1 /\ ~remotes[i].client))
    /\ [][\A i \in Backends :
             /\ remotes[i].client =>
                   /\ remotes'[i].client
                   /\ remotes'[i].built = remotes[i].built
             /\ ~Enabled(remotes[i]) =>
                   /\ remotes'[i].built = remotes[i].built
                   /\ ~remotes'[i].client
                   /\ ~Enabled(remotes'[i])
                   /\ call'.op \in {"fget", "fset"} =>
                         /\ remotes'[i].store = remotes[i].store
                         /\ \A j \in DOMAIN call'.trace :
                               call'.trace[j].b = i =>
                                  call'.trace[j].eff \in
                                     IF call'.trace[j].op = "get"
                                     THEN {"unavailable"}
                                     ELSE {"unavailable", "oversize"}]_vars

\* A backend whose construction failed in an earlier call was asked again by
\* a facade get: it answered as not available, while its server holds the key.
C26_Witness ==
    \E i \in Backends :
        /\ call.op = "fget"
        /\ remotes[i].built = 1
        /\ ~Enabled(remotes[i])
        /\ remotes[i].store[call.key] # None
        /\ \E j \in CallsOf(i) :
              call.trace[j].op = "get" /\ call.trace[j].eff = "unavailable"

\* ------------------------------------------------------------------ C27

\* The get calls, and the set calls, of backend i in the step's facade call.
GetsOf(i) ==
    {j \in DOMAIN call'.trace : call'.trace[j].b = i /\ call'.trace[j].op = "get"}
SetsOf(i) ==
    {j \in DOMAIN call'.trace : call'.trace[j].b = i /\ call'.trace[j].op = "set"}

\* The payload the server of backend i holds for key is over the backend's cap.
StoredOversize(i, key) ==
    /\ remotes[i].store[key] # None
    /\ Len(remotes[i].store[key]) > remotes[i].max_audio_bytes

\* C27: oversize handling of a backend.  A get that reads a stored payload
\* larger than max_audio_bytes returns absent (the facade's result does not
\* come from that backend) and the entry stays as it is (only the backfill
\* of a hit found deeper in the chain replaces it, in the same facade call),
\* and a get hits only on a payload within the cap; a set of a payload larger than
\* max_audio_bytes returns before anything else: the backend's store, its
\* client and its flags are as before, whatever the environment would have
\* done to a command.
C27_RemoteOversize ==
    [][\A i \in Backends :
          /\ \A j \in GetsOf(i) :
                /\ call'.trace[j].eff = "oversize" =>
                      /\ StoredOversize(i, call'.key)
                      /\ SetsOf(i) = {} => remotes'[i].store = remotes[i].store
                      /\ remotes'[i].store[call'.key] \in
                            {remotes[i].store[call'.key], call'.ret}
                      /\ call'.src # remotes[i].name
                /\ call'.trace[j].eff = "hit" => ~StoredOversize(i, call'.key)
                /\ (StoredOversize(i, call'.key)
                      /\ call'.trace[j].eff \notin FaultEffs)
                      => call'.trace[j].eff = "oversize"
          /\ (call'.op = "fset" /\ Len(call'.pcm) > remotes[i].max_audio_bytes) =>
                /\ SetsOf(i) # {}
                /\ \A j \in SetsOf(i) : call'.trace[j].eff = "oversize"
                /\ remotes'[i] = remotes[i]]_vars

\* A facade get read from a backend a payload over the cap: the backend
\* answered absent and its server still holds the payload.
C27_Witness ==
    \E i \in Backends :
        /\ call.op = "fget"
        /\ \E j \in CallsOf(i) :
              call.trace[j].op = "get" /\ call.trace[j].eff = "oversize"
        /\ remotes[i].store[call.key] # None
        /\ Len(remotes[i].store[call.key]) > remotes[i].max_audio_bytes
        /\ call.ret = None

\* ------------------------------------------------------------------ C28

\* What backend r can be after one set of key and pcm, and the path taken.
SetResults(r, key, pcm) ==
    {RedisAudioCache_set(r, key, pcm, out) : out \in OutcomesFor(r, SetOutcomes)}

\* C28: the chain's set calls set once on every backend of the chain, in
\* order, whatever happened at the others: each backend ends as its own set
\* leaves it, a backend whose command was applied holds the payload even
\* when the set of another backend, before or after it, failed, and nothing
\* is raised.
C28_ChainSetIndependent ==
    [][(call'.op = "fset" /\ ChainEnabled(remotes)) =>
          /\ Len(call'.trace) = Len(remotes)
          /\ ~Raised(call'.trace)
          /\ \A i \in Backends :
                /\ call'.trace[i].b = i
                /\ call'.trace[i].op = "set"
                /\ [r |-> remotes'[i], eff |-> call'.trace[i].eff]
                      \in SetResults(remotes[i], call'.key, call'.pcm)
                /\ call'.trace[i].eff \in {"stored", "lost_reply"}
                      => remotes'[i].store[call'.key] = call'.pcm]_vars

\* A facade set on two backends: the command of the first raised, the second
\* backend stored the payload.
C28_Witness ==
    /\ call.op = "fset"
    /\ Len(remotes) = 2
    /\ call.trace[1].eff = "fault"
    /\ call.trace[2].eff = "stored"
    /\ remotes[1].store[call.key] # call.pcm
    /\ remotes[2].store[call.key] = call.pcm

\* ------------------------------------------------------------------ C29

\* C29: the key is a function of the normalized text and the fingerprint,
\* and normalizing is idempotent: for all texts s, t and fingerprints f,
\* normalize(s) = normalize(t) implies build_key(s, f) = build_key(t, f),
\* and normalize(normalize(s)) = normalize(s).
C29_KeyOfNormalizedText ==
    call.op = "build_key" =>
        /\ call.normalized_s = call.normalized_t => call.key_s = call.key_t
        /\ call.renormalized_s = call.normalized_s

\* Two different texts that differ in their whitespace only, one of them not
\* in normal form, got the same key.
C29_Witness ==
    /\ call.op = "build_key"
    /\ call.s # call.t
    /\ call.s # call.normalized_s
    /\ call.normalized_s = call.normalized_t
    /\ call.normalized_s # <<>>
    /\ call.key_s = call.key_t

\* ------------------------------------------------------------------ C30

Quiescent == \A i \in Tasks : call.tasks[i].pc \in {"idle", "lock", "done"}

\* C31: with several tasks calling get and set on the one LocalAudioCache,
\* at most one task is inside the with block at a time; whenever no task
\* is inside it, the cache is the cache that the same calls give when run
\* one after the other in the order the lock was taken, it holds at most
\* max_items entries and max_bytes bytes and its byte counter is the sum of
\* the sizes of its entries; and every call returns what it returns in
\* that one-after-the-other run.
C31_LocalCallsSerialize ==
    /\ Cardinality({i \in Tasks :
                      call.tasks[i].pc \in {"in", "put", "evict", "release"}}) <= 1
    /\ Quiescent =>
          /\ local = call.serial
          /\ Len(local.items) <= local.max_items
          /\ local.current_bytes <= local.max_bytes
          /\ local.current_bytes = SumSizes(local.items)
    /\ \A i \in Tasks :
          call.tasks[i].pc = "done" => call.tasks[i].ret = call.tasks[i].expect

\* Two tasks have written the same key under the lock one after the
\* other, a get has returned an entry, and no task is inside the with
\* block.
C31_Witness ==
    /\ Quiescent
    /\ Len(call.order) >= 3
    /\ \E i, j \in 1..Len(call.order) :
          /\ i < j
          /\ call.order[i][1] # call.order[j][1]
          /\ call.order[i][2] = "set" /\ call.order[j][2] = "set"
          /\ call.order[i][3] = call.order[j][3]
    /\ \E i \in Tasks : call.tasks[i].pc = "done" /\ call.tasks[i].ret # None
    /\ local.items # <<>>

\* ------------------------------------------------------------------ C32

\* Whether the environment variable holds a valid value for the option,
\* and the value it stands for (an integer clamped to the minimum).
EnvValid(o, e) ==
    /\ e # Unset
    /\ CASE o.kind = "int" -> ParseInt(e.v).ok
         [] o.kind = "str" -> Strip(e.v) # <<>>
         [] OTHER -> TRUE
EnvMeaning(o, e) ==
    CASE o.kind = "int" -> MaxOf(o.minimum, ParseInt(e.v).v)
      [] o.kind = "str" -> Strip(e.v)
      [] OTHER -> Lower(Strip(e.v)) \notin FalseWords

\* C32 as stated: whenever the environment variable holds a valid value,
\* the resolved option is that value, clamped to the option's minimum,
\* whatever the configuration file gives.
C32_AsStated ==
    (call.op = "resolved" /\ EnvValid(call.option, call.env)) =>
        call.value = EnvMeaning(call.option, call.env)

\* ------------------------------------------------------------------ C33

\* C33: with max_items = 0 the cache holds no entry and its byte counter is
\* 0 in every state, no call gets as far as the lock, and every call
\* returns None.
C33_DisabledLocalTier ==
    local.max_items = 0 =>
        /\ local.items = <<>>
        /\ local.current_bytes = 0
        /\ \A i \in Tasks :
              /\ call.tasks[i].pc \in {"idle", "done"}
              /\ call.tasks[i].ret = None

\* With max_items = 0, a set of a payload within max_bytes has returned
\* and a get of the same key has returned after it.
C33_Witness ==
    /\ local.max_items = 0
    /\ \E i, j \in Tasks :
          /\ call.tasks[i].pc = "done" /\ call.tasks[i].op = "set"
          /\ Len(call.tasks[i].pcm) <= local.max_bytes
          /\ call.tasks[j].pc = "done" /\ call.tasks[j].op = "get"
          /\ call.tasks[j].key = call.tasks[i].key
          /\ call.order[Len(call.order)] = <<j, "get", call.tasks[j].key>>

\* ------------------------------------------------------------------ C37

\* C37: a set(k, v) that is admitted (max_items >= 1 and len(v) <=
\* max_bytes) leaves k held with value v, as the newest entry, whatever the
\* cache held before.
C37_AdmittedSetKeepsEntry ==
    [][(call'.op = "set" /\ Admits(local, call'.pcm)) =>
          /\ DictGet(local'.items, call'.key) = call'.pcm
          /\ local'.items[Len(local'.items)].key = call'.key]_vars

\* A set of a payload of max_bytes bytes after two other keys had been in
\* use: the entry just inserted is the only one the cache holds.
C37_Witness ==
    /\ call.op = "set"
    /\ local.max_items >= 2
    /\ Len(call.pcm) = local.max_bytes
    /\ DictKeys(local.items) = {call.key}
    /\ Cardinality(Range(used) \ {call.key}) >= 2

\* ------------------------------------------------------------------ C34

\* A facade get that went to the chain: the local tier missed and the chain
\* is enabled.
ChainGetStep == call'.op = "fget" /\ call'.trace # <<>>

\* The gets and the sets the chain made in that call, as places of its trace,
\* and the backends that held the key when it was made.
ChainGets == {t \in DOMAIN call'.trace : call'.trace[t].op = "get"}
ChainSets == {t \in DOMAIN call'.trace : call'.trace[t].op = "set"}
Holders == {i \in Backends : remotes[i].store[call'.key] # None}
FirstHolder == CHOOSE i \in Holders : \A j \in Holders : i <= j

\* C34 as stated: the chain returns the payload of the first backend that
\* holds the key, tagged with its name, and neither queries nor writes a
\* later backend; a hit at the first backend writes nothing; when no backend
\* holds the key the result is absent and nothing is written.
C34_AsStated ==
    [][ChainGetStep =>
          IF Holders = {}
          THEN call'.ret = None /\ ChainSets = {}
          ELSE /\ call'.ret = remotes[FirstHolder].store[call'.key]
               /\ call'.src = remotes[FirstHolder].name
               /\ \A t \in DOMAIN call'.trace : call'.trace[t].b <= FirstHolder
               /\ \A i \in Backends : i > FirstHolder => remotes'[i] = remotes[i]
               /\ FirstHolder = 1 => ChainSets = {}]_vars

\* C34 amended: the chain asks its backends in order and stops at the first
\* whose get returns a payload; it returns that payload tagged with that
\* backend's name, then writes to each backend before it, in order, and
\* neither asks nor writes a later one; a hit at the first backend writes
\* nothing.  A backend that is passed over and whose get met no fault, had
\* a client and found no oversize payload does not hold the key.  When no
\* get returns a payload every backend has been asked, the result is absent
\* and nothing is written.
C34_FirstAnsweringBackend ==
    [][ChainGetStep =>
          LET T == call'.trace
              n == Cardinality(ChainGets)
              Hits == {t \in ChainGets : T[t].eff = "hit"}
          IN  /\ \A t \in ChainGets : T[t].b = t
              /\ \A t \in ChainSets : t > n /\ T[t].b = t - n
              /\ \A t \in ChainGets :
                    T[t].eff = "miss" => remotes[t].store[call'.key] = None
              /\ IF Hits = {}
                 THEN /\ call'.ret = None
                      /\ ChainSets = {}
                      /\ n = Len(remotes)
                      /\ \A i \in Backends : remotes'[i].store = remotes[i].store
                 ELSE /\ Hits = {n}
                      /\ call'.ret = remotes[n].store[call'.key]
                      /\ call'.src = remotes[n].name
                      /\ Len(T) = 2 * n - 1
                      /\ \A i \in Backends : i > n => remotes'[i] = remotes[i]]_vars

\* The first backend held an oversize payload for the key and was passed
\* over; the second answered, and its payload was written to the first.
C34_Witness ==
    /\ call.op = "fget"
    /\ call.src = "R2"
    /\ Len(call.trace) = 3
    /\ call.trace[1].eff = "oversize"
    /\ call.trace[3] = [b |-> 1, op |-> "set", eff |-> "stored"]
    /\ remotes[1].store[call.key] = call.ret

\* ------------------------------------------------------------------ C35

\* C35 as stated: in every state each backend of the chain is enabled, and
\* the chain is enabled iff it holds a backend.
C35_AsStated ==
    /\ \A i \in Backends : Enabled(remotes[i])
    /\ ChainEnabled(remotes) <=> remotes # <<>>

\* C35 amended: the chain holds the backends that were enabled when it was
\* built and never gains or loses one; a backend of the chain that is not
\* enabled is one whose client construction failed after the chain was
\* built; the chain is enabled iff it holds a backend.
C35_ChainOfOnceEnabled ==
    /\ [](\A i \in Backends :
             ~Enabled(remotes[i]) => (remotes[i].built = 1 /\ ~remotes[i].client))
    /\ [](ChainEnabled(remotes) <=> remotes # <<>>)
    /\ [][/\ Len(remotes') = Len(remotes)
          /\ \A i \in Backends : remotes'[i].name = remotes[i].name]_vars

\* The chain holds two backends and is enabled; the client construction of
\* both has failed, in facade calls, and neither is enabled.
C35_Witness ==
    /\ Len(remotes) = 2
    /\ ChainEnabled(remotes)
    /\ \A i \in Backends : ~Enabled(remotes[i]) /\ remotes[i].built = 1
    /\ call.op \in {"fget", "fset"}

\* ------------------------------------------------------------------ C36

\* _synthesize is at a segment whose text is not cacheable.
Uncacheable == turn.text # <<>> /\ ~IsCacheable(turn.text)

\* C36: a non-empty segment that is not cacheable adds one to segments and
\* goes to the wrapped TTS at once; while the adapter is at it, it makes no
\* get and no set on the facade, the caches stay as they are, and no metric
\* changes.
C36_UncacheableBypassesCache ==
    /\ [](Uncacheable =>
             /\ turn.pc = "synth"
             /\ tts_calls # <<>>
             /\ tts_calls[Len(tts_calls)].text = turn.text
             /\ tts_calls[Len(tts_calls)].result = "running")
    /\ [][(turn'.text # turn.text /\ turn'.text # <<>> /\ ~IsCacheable(turn'.text)) =>
             /\ call'.op = "segment"
             /\ turn_metrics' = [turn_metrics EXCEPT !.segments = @ + 1]
             /\ UNCHANGED <<local, remotes, wrote, stored>>]_vars
    /\ [][(Uncacheable /\ turn' # turn /\ call'.op # "cancel") =>
             /\ call'.op \in {"frame", "synth_end", "synth_fault"}
             /\ turn_metrics' = turn_metrics
             /\ UNCHANGED <<local, remotes, wrote, stored>>]_vars

\* The synthesis of a segment that is not cacheable has ended normally with
\* audio: the turn has one segment, no hit and no miss, and nothing is stored.
C36_Witness ==
    /\ call.op = "synth_end"
    /\ tts_calls # <<>>
    /\ ~IsCacheable(tts_calls[Len(tts_calls)].text)
    /\ tts_calls[Len(tts_calls)].result = "done"
    /\ tts_calls[Len(tts_calls)].first <= Len(emitter)
    /\ turn_metrics.segments = 1
    /\ turn_metrics.cache_hits + turn_metrics.cache_misses = 0
    /\ turn_metrics.cache_miss_audio_bytes = 0
    /\ local.items = <<>>

\* ------------------------------------------------------------------ C39

\* The syntheses of the turn so far, by kind.
SynthCalls == DOMAIN tts_calls
NotCacheableCalls == {i \in SynthCalls : ~IsCacheable(tts_calls[i].text)}
FailedCacheableCalls ==
    {i \in SynthCalls : IsCacheable(tts_calls[i].text) /\ tts_calls[i].result = "fault"}
DoneCacheableCalls ==
    {i \in SynthCalls : IsCacheable(tts_calls[i].text) /\ tts_calls[i].result = "done"}

\* The bytes the wrapped TTS gave in its i-th synthesis of the turn: the
\* synthesized chunks of the emitter from its first one to the next synthesis.
SynthBytes(i) ==
    LET last == IF i < Len(tts_calls) THEN tts_calls[i + 1].first - 1
                ELSE Len(emitter)
        chunks == SelectSeq(SubSeq(emitter, tts_calls[i].first, last),
                            LAMBDA c : ~c.cached)
    IN  Len(ConcatPcm(chunks))

RECURSIVE SumSynthBytes(_)
SumSynthBytes(S) ==
    IF S = {} THEN 0
    ELSE LET i == CHOOSE x \in S : TRUE IN SynthBytes(i) + SumSynthBytes(S \ {i})

\* C39: whenever _synthesize is between two segments, and so at the end of
\* the turn, segments is the number of hits, plus misses, plus segments that
\* were not cacheable, plus cacheable segments whose synthesis failed; and
\* cache_miss_audio_bytes is the number of bytes synthesized for the
\* cacheable segments whose synthesis ended normally, stored or not.
C39_SegmentsAccounted ==
    turn.pc \in {"next", "report"} =>
        /\ turn_metrics.segments =
              turn_metrics.cache_hits + turn_metrics.cache_misses
              + Cardinality(NotCacheableCalls) + Cardinality(FailedCacheableCalls)
        /\ turn_metrics.cache_miss_audio_bytes = SumSynthBytes(DoneCacheableCalls)

\* The end of a turn of three segments: a hit, a cacheable segment whose
\* synthesis gave more bytes than are stored, and a segment whose synthesis
\* failed after a frame.
C39_Witness ==
    /\ turn.pc = "report"
    /\ turn_metrics.segments = 3
    /\ turn_metrics.cache_hits = 1
    /\ turn_metrics.cache_misses = 1
    /\ turn_metrics.cache_miss_audio_bytes > TTS_CACHE_MAX_AUDIO_BYTES
    /\ \E i \in SynthCalls :
          tts_calls[i].result = "fault" /\ SynthBytes(i) > 0

\* ------------------------------------------------------------------ C38

\* C38 as stated: once all the tasks that stored different payloads under
\* one key have returned, with no fault and no eviction, the local tier and
\* every backend hold the same payload for that key.
C38_AsStated ==
    \A k \in RaceKeys :
        (/\ \A i \in 1..MaxTasks : call.tasks[i].pc = "done"
         /\ \E i, j \in 1..MaxTasks :
               /\ call.tasks[i].key = k /\ call.tasks[j].key = k
               /\ call.tasks[i].pcm # call.tasks[j].pcm) =>
            \A b \in Backends : remotes[b].store[k] = DictGet(local.items, k)

====
